---- MODULE Spec2Model ----
(***************************************************************************)
(* Lead discovery and consolidation pipeline of LandscapeLeadsFL:          *)
(* the text classifier (ScreenerAgent), the merge-and-persist step of the  *)
(* pipeline (FormatterAgent.format_output) and the merge of the GitHub     *)
(* Actions scraper (update_leads_json), which both write the lead store.   *)
(*                                                                         *)
(* A Python str is a sequence of one-character strings, so that `in`,      *)
(* str.lower and re.search(r"\bX\b", ...) are computed character by        *)
(* character as the interpreter computes them.                             *)
(***************************************************************************)
EXTENDS Integers, Sequences, FiniteSets, TLC

VARIABLES
    store,           \* the JSON lead store on disk: a sequence of leads
    raw_leads,       \* raw_leads of the running pipeline (discover_leads' result)
    screened_leads,  \* screened_leads of the running pipeline (screen's result)
    new_leads,       \* leads of github_scrape.main (scrape_all's result)
    pc,              \* position of the running entry point
    clock,           \* the wall clock read by datetime.now() / datetime.utcnow()
    decisions,       \* history: the decisions screen has taken so far
    used,            \* history: size of the input fed to the program so far
    fresh,           \* history: number of source URLs found so far
    last,            \* history: the last merge (operation, store before, batch,
                     \* and the candidates the batch was screened from)
    disk,            \* the JSON lead stores at the other paths: "workspace" is
                     \* C:/Users/futur/gemini_workspace/leads.json, the default
                     \* output_path_base of format_output, and "local" is
                     \* ./leads.json, the fallback of run_legacy_pipeline
    file,            \* what each store file holds: "absent" (no file), "valid"
                     \* (a JSON array), "empty" (zero bytes) or "partial" (a
                     \* proper prefix of a JSON text); store is "docs"
    entry,           \* the entry point that is running
    outcome,         \* how the entry point ended for its caller
    log,             \* the warnings and errors the run has logged
    summary,         \* the summary run_full_pipeline returns
    faults,          \* history: the faults that occurred in the run
    procs,           \* the pipeline runs the dashboard has started, one for
                     \* each POST to /api/discover
    response,        \* the response of the last GET /api/leads of the dashboard
    versions,        \* history: the complete contents the store read by the
                     \* dashboard has held
    scan,            \* the page loop of a Craigslist scraper that is running
    gather           \* the connector tasks of discover_leads on the event loop

\* the state of the store files, of the run of an entry point and of the runs
\* of the dashboard
run_vars == <<disk, file, entry, outcome, log, summary, faults, procs>>

\* the responses of the dashboard and the connectors at work
ext_vars == <<response, versions, scan, gather>>

vars == <<store, raw_leads, screened_leads, new_leads, pc, clock, decisions, used, fresh, last,
          disk, file, entry, outcome, log, summary, faults, procs,
          response, versions, scan, gather>>

----------------------------------------------------------------------------
(* Bounds of the model *)

\* size of the input fed to the screener in one behaviour of SpecScreen:
\* one for each candidate plus one for each word of its text
MaxInput == 4
\* candidates in one batch handed to screen, items in one scrape
MaxBatch == 2
\* candidates and items found in one behaviour of Spec
MaxLeads == 3
\* last value of the clock; no run starts after it
MaxClock == 3

----------------------------------------------------------------------------
(* Python strings *)

UpperCase == <<"A","B","C","D","E","F","G","H","I","J","K","L","M",
               "N","O","P","Q","R","S","T","U","V","W","X","Y","Z">>
LowerCase == <<"a","b","c","d","e","f","g","h","i","j","k","l","m",
               "n","o","p","q","r","s","t","u","v","w","x","y","z">>
Digits == {"0","1","2","3","4","5","6","7","8","9"}

\* str.lower() on one character
lower_char(c) ==
    IF \E i \in 1..26 : UpperCase[i] = c
    THEN LowerCase[CHOOSE i \in 1..26 : UpperCase[i] = c]
    ELSE c

\* str.lower()
lower(s) == [i \in 1..Len(s) |-> lower_char(s[i])]

\* p in s  (substring test of Python)
str_in(p, s) ==
    \E i \in 1..(Len(s) - Len(p) + 1) : SubSeq(s, i, i + Len(p) - 1) = p

\* \w of the re module on ASCII text
is_word_char(c) ==
    \/ \E i \in 1..26 : LowerCase[i] = c \/ UpperCase[i] = c
    \/ c \in Digits
    \/ c = "_"

\* \b between the characters k-1 and k of s (k in 1..Len(s)+1)
word_boundary(s, k) ==
    LET before == k > 1 /\ is_word_char(s[k - 1])
        after  == k <= Len(s) /\ is_word_char(s[k])
    IN  before # after

\* re.search(r"\bX\b", s) is not None, for a literal X
re_search_word(x, s) ==
    \E i \in 1..(Len(s) - Len(x) + 1) :
        /\ SubSeq(s, i, i + Len(x) - 1) = x
        /\ word_boundary(s, i)
        /\ word_boundary(s, i + Len(x))

\* any(p in s for p in pats)
any_in(pats, s) == \E j \in 1..Len(pats) : str_in(pats[j], s)

\* any(re.search(pat, s) for pat in pats)
any_search(pats, s) == \E j \in 1..Len(pats) : re_search_word(pats[j], s)

\* " ".join(words)
RECURSIVE join(_)
join(words) ==
    IF Len(words) = 0 THEN <<>>
    ELSE IF Len(words) = 1 THEN words[1]
    ELSE words[1] \o <<" ">> \o join(Tail(words))

----------------------------------------------------------------------------
(* ScreenerAgent *)

\* ScreenerAgent.target_cities (agents.py:122-138)
target_cities ==
  <<<<"b","r","o","w","a","r","d">>,  \* broward
    <<"m","i","a","m","i">>,  \* miami
    <<"f","o","r","t"," ","l","a","u","d","e","r","d","a","l","e">>,  \* fort lauderdale
    <<"d","a","d","e">>,  \* dade
    <<"c","o","r","a","l"," ","g","a","b","l","e","s">>,  \* coral gables
    <<"w","e","s","t","o","n">>,  \* weston
    <<"d","a","v","i","e">>,  \* davie
    <<"p","l","a","n","t","a","t","i","o","n">>,  \* plantation
    <<"s","u","n","r","i","s","e">>,  \* sunrise
    <<"b","o","c","a">>,  \* boca
    <<"p","a","r","k","l","a","n","d">>,  \* parkland
    <<"p","o","m","p","a","n","o">>,  \* pompano
    <<"h","o","l","l","y","w","o","o","d">>,  \* hollywood
    <<"d","e","l","r","a","y">>,  \* delray
    <<"p","a","l","m"," ","b","e","a","c","h">>  \* palm beach
  >>

\* ScreenerAgent.pro_bad_words (agents.py:141-166)
pro_bad_words ==
  <<<<"w","e"," ","p","r","o","v","i","d","e">>,  \* we provide
    <<"o","u","r"," ","c","o","m","p","a","n","y">>,  \* our company
    <<"p","r","o","f","e","s","s","i","o","n","a","l"," ","p","r","i","c","e">>,  \* professional price
    <<"f","r","e","e"," ","e","s","t","i","m","a","t","e">>,  \* free estimate
    <<"l","i","c","e","n","s","e","d"," ","a","n","d"," ","i","n","s","u","r","e","d">>,  \* licensed and insured
    <<"b","e","s","t"," ","p","r","i","c","e","s">>,  \* best prices
    <<"s","e","r","v","i","c","e"," ","p","r","o","v","i","d","e","d">>,  \* service provided
    <<"i","n","s","t","a","l","l","a","t","i","o","n"," ","m","a","s","t","e","r","s">>,  \* installation masters
    <<"c","a","l","l"," ","f","o","r"," ","q","u","o","t","e">>,  \* call for quote
    <<"f","a","m","i","l","y"," ","o","w","n","e","d">>,  \* family owned
    <<"l","i","c","e","n","s","e","d"," ","c","o","m","p","a","n","y">>,  \* licensed company
    <<"w","e"," ","i","n","s","t","a","l","l">>,  \* we install
    <<"o","u","r"," ","t","e","a","m">>,  \* our team
    <<"y","e","a","r","s"," ","o","f"," ","e","x","p","e","r","i","e","n","c","e">>,  \* years of experience
    <<"s","e","r","v","i","n","g">>,  \* serving
    <<"s","a","t","i","s","f","a","c","t","i","o","n"," ","g","u","a","r","a","n","t","e","e","d">>,  \* satisfaction guaranteed
    <<"f","u","l","l","y"," ","i","n","s","u","r","e","d">>,  \* fully insured
    <<"b","o","n","d","e","d">>,  \* bonded
    <<"c","o","m","m","e","r","c","i","a","l"," ","a","n","d"," ","r","e","s","i","d","e","n","t","i","a","l">>,  \* commercial and residential
    <<"v","i","s","i","t"," ","o","u","r"," ","w","e","b","s","i","t","e">>,  \* visit our website
    <<"d","m"," ","f","o","r"," ","q","u","o","t","e">>,  \* dm for quote
    <<"a","f","f","o","r","d","a","b","l","e"," ","r","a","t","e","s">>,  \* affordable rates
    <<"a","c","c","e","p","t"," ","c","r","e","d","i","t"," ","c","a","r","d","s">>,  \* accept credit cards
    <<"f","i","n","a","n","c","i","n","g"," ","a","v","a","i","l","a","b","l","e">>  \* financing available
  >>

\* ScreenerAgent.sales_flags (agents.py:169-178)
sales_flags ==
  <<<<"s","e","l","l","i","n","g">>,  \* selling
    <<"f","o","r"," ","s","a","l","e">>,  \* for sale
    <<"a","v","a","i","l","a","b","l","e"," ","f","o","r"," ","p","u","r","c","h","a","s","e">>,  \* available for purchase
    <<"-","-","-">>,  \* ---
    <<"b","u","y"," ","n","o","w">>,  \* buy now
    <<"d","i","s","c","o","u","n","t">>,  \* discount
    <<"l","i","m","i","t","e","d"," ","t","i","m","e">>,  \* limited time
    <<"s","p","e","c","i","a","l"," ","o","f","f","e","r">>  \* special offer
  >>

\* the literals X of the regexes \bX\b of agents.py:225-234
personal_pats ==
  <<<<"i">>,  \* i
    <<"m","y">>,  \* my
    <<"m","e">>,  \* me
    <<"o","u","r"," ","y","a","r","d">>,  \* our yard
    <<"m","y"," ","h","o","m","e">>,  \* my home
    <<"m","y"," ","p","r","o","p","e","r","t","y">>,  \* my property
    <<"m","y"," ","l","a","w","n">>,  \* my lawn
    <<"o","u","r"," ","h","o","u","s","e">>  \* our house
  >>

\* the literals X of the regexes \bX\b of agents.py:241-249
help_pats ==
  <<<<"n","e","e","d">>,  \* need
    <<"l","o","o","k","i","n","g"," ","f","o","r">>,  \* looking for
    <<"h","i","r","e">>,  \* hire
    <<"h","e","l","p">>,  \* help
    <<"r","e","c","o","m","m","e","n","d">>,  \* recommend
    <<"s","e","e","k","i","n","g">>,  \* seeking
    <<"w","a","n","t">>  \* want
  >>

\* project_keywords (agents.py:254-267)
project_keywords ==
  <<<<"s","o","d">>,  \* sod
    <<"p","a","v","e","r">>,  \* paver
    <<"d","r","a","i","n","a","g","e">>,  \* drainage
    <<"d","e","s","i","g","n">>,  \* design
    <<"i","n","s","t","a","l","l","a","t","i","o","n">>,  \* installation
    <<"o","v","e","r","h","a","u","l">>,  \* overhaul
    <<"i","r","r","i","g","a","t","i","o","n">>,  \* irrigation
    <<"h","e","d","g","e">>,  \* hedge
    <<"t","r","e","e"," ","r","e","m","o","v","a","l">>,  \* tree removal
    <<"f","e","n","c","e">>,  \* fence
    <<"p","a","t","i","o">>,  \* patio
    <<"d","e","c","k">>  \* deck
  >>

\* the question patterns of agents.py:277
question_pats ==
  <<<<"?">>,  \* ?
    <<"a","n","y","o","n","e"," ","k","n","o","w">>,  \* anyone know
    <<"c","a","n"," ","a","n","y","o","n","e">>,  \* can anyone
    <<"d","o","e","s"," ","a","n","y","o","n","e">>  \* does anyone
  >>

\* _calculate_intent_score adding the weight of a category once for each of
\* its patterns that matches
_calculate_intent_score_per_pattern(text) ==
    LET n1 == Cardinality({ j \in 1..Len(personal_pats) : re_search_word(personal_pats[j], text) })
        n2 == Cardinality({ j \in 1..Len(help_pats) : re_search_word(help_pats[j], text) })
        n3 == Cardinality({ j \in 1..Len(project_keywords) : str_in(project_keywords[j], text) })
        n4 == Cardinality({ j \in 1..Len(target_cities) : str_in(target_cities[j], text) })
        n5 == Cardinality({ j \in 1..Len(question_pats) : str_in(question_pats[j], text) })
    IN  25 * n1 + 15 * n2 + 10 * n3 + 5 * n4 + 5 * n5

\* _calculate_intent_score with the categories chained by elif: only the first
\* category that matches contributes
_calculate_intent_score_elif(text) ==
    IF any_search(personal_pats, text) THEN 25
    ELSE IF any_search(help_pats, text) THEN 15
    ELSE IF any_in(project_keywords, text) THEN 10
    ELSE IF any_in(target_cities, text) THEN 5
    ELSE IF any_in(question_pats, text) THEN 5
    ELSE 0

\* ScreenerAgent._calculate_intent_score
_calculate_intent_score(text) ==
    LET s1 == IF any_search(personal_pats, text) THEN 25 ELSE 0
        s2 == IF any_search(help_pats, text) THEN 15 ELSE 0
        s3 == IF any_in(project_keywords, text) THEN 10 ELSE 0
        s4 == IF any_in(target_cities, text) THEN 5 ELSE 0
        s5 == IF any_in(question_pats, text) THEN 5 ELSE 0
    IN  s1 + s2 + s3 + s4 + s5

\* combined = f"{title} {text}" of ScreenerAgent.screen
combined_text(lead) == lower(lead.Job_Title) \o <<" ">> \o lower(lead.Raw_Text)

\* is_excluded without the sales/spam exclusion
is_excluded_pro_only(combined) == any_in(pro_bad_words, combined)

\* the two exclusions of ScreenerAgent.screen: professional service providers,
\* then sales/spam posts
is_excluded(combined) ==
    IF any_in(pro_bad_words, combined) THEN TRUE
    ELSE IF any_in(sales_flags, combined) THEN TRUE
    ELSE FALSE

\* passes_threshold with the threshold of github_scrape.parse_craigslist
passes_threshold_20(score) == score >= 20

\* the threshold of ScreenerAgent.screen
passes_threshold(score) == score >= 25

\* the loop of ScreenerAgent.screen from the lead at index i on;
\* stamps[i] is what datetime.now() returns in the iteration of lead i
RECURSIVE screen_loop(_, _, _, _)
screen_loop(leads, i, stamps, filtered_leads) ==
    IF i > Len(leads) THEN filtered_leads
    ELSE
      LET lead == leads[i]
          combined == combined_text(lead)
      IN  IF is_excluded(combined)
          THEN screen_loop(leads, i + 1, stamps, filtered_leads)
          ELSE
            LET score == _calculate_intent_score(combined)
            IN  IF passes_threshold(score)
                THEN screen_loop(leads, i + 1, stamps,
                       Append(filtered_leads,
                              [Source_URL  |-> lead.Source_URL,
                               Job_Title   |-> lead.Job_Title,
                               Raw_Text    |-> lead.Raw_Text,
                               Score       |-> score,
                               Screened_At |-> stamps[i]]))
                ELSE screen_loop(leads, i + 1, stamps, filtered_leads)

\* screen with a memory of the texts it has seen: a candidate whose title and
\* text were already screened in this call is skipped
RECURSIVE screen_loop_skip_seen(_, _, _, _, _)
screen_loop_skip_seen(leads, i, stamps, filtered_leads, seen) ==
    IF i > Len(leads) THEN filtered_leads
    ELSE
      LET lead == leads[i]
          combined == combined_text(lead)
          seen2 == seen \cup {combined}
      IN  IF combined \in seen \/ is_excluded(combined)
          THEN screen_loop_skip_seen(leads, i + 1, stamps, filtered_leads, seen2)
          ELSE
            LET score == _calculate_intent_score(combined)
            IN  IF passes_threshold(score)
                THEN screen_loop_skip_seen(leads, i + 1, stamps,
                       Append(filtered_leads,
                              [Source_URL  |-> lead.Source_URL,
                               Job_Title   |-> lead.Job_Title,
                               Raw_Text    |-> lead.Raw_Text,
                               Score       |-> score,
                               Screened_At |-> stamps[i]]),
                       seen2)
                ELSE screen_loop_skip_seen(leads, i + 1, stamps, filtered_leads, seen2)

screen_skip_seen(leads, stamps) == screen_loop_skip_seen(leads, 1, stamps, <<>>, {})

\* ScreenerAgent.screen
screen(leads, stamps) == screen_loop(leads, 1, stamps, <<>>)


----------------------------------------------------------------------------
(* Python dict keyed by Source_URL and sorted() *)

\* the smaller of two numbers
min(a, b) == IF a < b THEN a ELSE b

\* dict_put that never finds the key: every lead is a new entry
dict_put_append(d, lead) == Append(d, lead)

\* d[lead["Source_URL"]] = lead on a dict that keeps its keys in insertion
\* order: a key already there keeps its place and takes the new value; the
\* dict is the sequence of its values
dict_put(d, lead) ==
    IF \E j \in 1..Len(d) : d[j].Source_URL = lead.Source_URL
    THEN [j \in 1..Len(d) |->
            IF d[j].Source_URL = lead.Source_URL THEN lead ELSE d[j]]
    ELSE Append(d, lead)

\* {lead["Source_URL"]: lead for lead in leads}, added to the dict d
RECURSIVE dict_from(_, _)
dict_from(d, leads) ==
    IF Len(leads) = 0 THEN d
    ELSE dict_from(dict_put(d, Head(leads)), Tail(leads))

\* sorted(leads, key=lambda x: x[k], reverse=True): descending and stable (leads
\* with equal keys keep their order)
RECURSIVE sorted_desc(_, _)
sorted_desc(leads, k) ==
    IF Len(leads) <= 1 THEN leads
    ELSE
      LET n == Len(leads)
          rest == sorted_desc(SubSeq(leads, 1, n - 1), k)
          x == leads[n]
          p == Cardinality({ j \in 1..(n - 1) : rest[j][k] >= x[k] })
      IN  SubSeq(rest, 1, p) \o <<x>> \o SubSeq(rest, p + 1, n - 1)

----------------------------------------------------------------------------
(* FormatterAgent *)

\* pro_flags of FormatterAgent._final_scrub (agents.py:357-364)
pro_flags ==
  <<<<"f","r","e","e"," ","e","s","t","i","m","a","t","e">>,  \* free estimate
    <<"l","i","c","e","n","s","e","d"," ","a","n","d"," ","i","n","s","u","r","e","d">>,  \* licensed and insured
    <<"o","u","r"," ","c","o","m","p","a","n","y">>,  \* our company
    <<"w","e"," ","p","r","o","v","i","d","e">>,  \* we provide
    <<"c","a","l","l"," ","u","s"," ","t","o","d","a","y">>,  \* call us today
    <<"y","e","a","r","s"," ","o","f"," ","e","x","p","e","r","i","e","n","c","e">>  \* years of experience
  >>

\* FormatterAgent._final_scrub
_final_scrub(leads) ==
    SelectSeq(leads, LAMBDA lead : ~ any_in(pro_flags, lower(lead.Raw_Text)))

\* format_output_final_list that keeps the first lead of the sorted list only
format_output_final_list_top(batch, existing_leads) ==
    LET final_list == sorted_desc(dict_from(<<>>, _final_scrub(batch \o existing_leads)), "Score")
    IN  SubSeq(final_list, 1, min(1, Len(final_list)))

\* format_output_final_list without the deduplication by URL
format_output_final_list_no_dedup(batch, existing_leads) ==
    sorted_desc(_final_scrub(batch \o existing_leads), "Score")

\* the merge of FormatterAgent.format_output: the content written to the JSON
\* store, from the batch and the content loaded from the store
format_output_final_list(batch, existing_leads) ==
    LET all_leads == batch \o existing_leads
        clean_leads == _final_scrub(all_leads)
        final_list == dict_from(<<>>, clean_leads)
    IN  sorted_desc(final_list, "Score")

\* FormatterAgent.format_output: the store after the call
format_output(batch, existing_leads) ==
    IF Len(batch) = 0 THEN existing_leads
    ELSE format_output_final_list(batch, existing_leads)

----------------------------------------------------------------------------
(* scripts/github_scrape.py *)

\* PRO_FLAGS (github_scrape.py:67-88)
PRO_FLAGS ==
  <<<<"l","i","c","e","n","s","e","d">>,  \* licensed
    <<"i","n","s","u","r","e","d">>,  \* insured
    <<"f","r","e","e"," ","e","s","t","i","m","a","t","e">>,  \* free estimate
    <<"c","a","l","l"," ","u","s">>,  \* call us
    <<"v","i","s","i","t"," ","o","u","r">>,  \* visit our
    <<"w","e","b","s","i","t","e">>,  \* website
    <<"c","r","e","d","i","t"," ","c","a","r","d">>,  \* credit card
    <<"f","i","n","a","n","c","e">>,  \* finance
    <<"s","a","t","i","s","f","a","c","t","i","o","n"," ","g","u","a","r","a","n","t","e","e","d">>,  \* satisfaction guaranteed
    <<"w","e"," ","p","r","o","v","i","d","e">>,  \* we provide
    <<"o","u","r"," ","c","o","m","p","a","n","y">>,  \* our company
    <<"y","e","a","r","s"," ","o","f"," ","e","x","p","e","r","i","e","n","c","e">>,  \* years of experience
    <<"a","f","f","o","r","d","a","b","l","e"," ","r","a","t","e","s">>,  \* affordable rates
    <<"o","u","r"," ","t","e","a","m">>,  \* our team
    <<"f","a","m","i","l","y"," ","o","w","n","e","d">>,  \* family owned
    <<"w","e"," ","i","n","s","t","a","l","l">>,  \* we install
    <<"b","o","n","d","e","d">>,  \* bonded
    <<"d","m"," ","f","o","r"," ","q","u","o","t","e">>,  \* dm for quote
    <<"f","i","n","a","n","c","i","n","g"," ","a","v","a","i","l","a","b","l","e">>,  \* financing available
    <<"a","c","c","e","p","t"," ","c","r","e","d","i","t"," ","c","a","r","d","s">>  \* accept credit cards
  >>

\* SALES_FLAGS (github_scrape.py:90)
SALES_FLAGS ==
  <<<<"f","o","r"," ","s","a","l","e">>,  \* for sale
    <<"s","e","l","l","i","n","g">>,  \* selling
    <<"b","u","y"," ","n","o","w">>,  \* buy now
    <<"d","i","s","c","o","u","n","t">>,  \* discount
    <<"l","i","m","i","t","e","d"," ","t","i","m","e">>  \* limited time
  >>

\* the literals X of the regexes \bX\b of personal in score_lead (github_scrape.py:144-151)
personal ==
  <<<<"i">>,  \* i
    <<"m","y">>,  \* my
    <<"m","e">>,  \* me
    <<"m","y"," ","h","o","m","e">>,  \* my home
    <<"m","y"," ","y","a","r","d">>,  \* my yard
    <<"o","u","r"," ","y","a","r","d">>  \* our yard
  >>

\* the literals X of the regexes \bX\b of help_pats in score_lead (github_scrape.py:156-163)
gh_help_pats ==
  <<<<"n","e","e","d">>,  \* need
    <<"l","o","o","k","i","n","g"," ","f","o","r">>,  \* looking for
    <<"h","i","r","e">>,  \* hire
    <<"h","e","l","p">>,  \* help
    <<"r","e","c","o","m","m","e","n","d">>,  \* recommend
    <<"w","a","n","t">>  \* want
  >>

\* project_kw of score_lead (github_scrape.py:168-180)
project_kw ==
  <<<<"s","o","d">>,  \* sod
    <<"p","a","v","e","r">>,  \* paver
    <<"d","r","a","i","n","a","g","e">>,  \* drainage
    <<"i","r","r","i","g","a","t","i","o","n">>,  \* irrigation
    <<"h","e","d","g","e">>,  \* hedge
    <<"t","r","e","e"," ","r","e","m","o","v","a","l">>,  \* tree removal
    <<"f","e","n","c","e">>,  \* fence
    <<"p","a","t","i","o">>,  \* patio
    <<"d","e","c","k">>,  \* deck
    <<"t","u","r","f">>,  \* turf
    <<"d","r","i","v","e","w","a","y">>  \* driveway
  >>

\* the question phrases of score_lead (github_scrape.py:186)
anyone_pats ==
  <<<<"a","n","y","o","n","e"," ","k","n","o","w">>,  \* anyone know
    <<"c","a","n"," ","a","n","y","o","n","e">>,  \* can anyone
    <<"d","o","e","s"," ","a","n","y","o","n","e">>  \* does anyone
  >>

\* fl_cities of score_lead (github_scrape.py:191-201)
fl_cities ==
  <<<<"m","i","a","m","i">>,  \* miami
    <<"b","r","o","w","a","r","d">>,  \* broward
    <<"f","o","r","t"," ","l","a","u","d","e","r","d","a","l","e">>,  \* fort lauderdale
    <<"b","o","c","a">>,  \* boca
    <<"c","o","r","a","l"," ","g","a","b","l","e","s">>,  \* coral gables
    <<"h","o","l","l","y","w","o","o","d">>,  \* hollywood
    <<"p","l","a","n","t","a","t","i","o","n">>,  \* plantation
    <<"w","e","s","t","o","n">>,  \* weston
    <<"d","a","v","i","e">>  \* davie
  >>

\* the words looked for in intro_words (github_scrape.py:258)
intro_help_words ==
  <<<<"n","e","e","d">>,  \* need
    <<"h","e","l","p">>,  \* help
    <<"l","o","o","k","i","n","g">>,  \* looking
    <<"w","a","n","t">>,  \* want
    <<"h","i","r","e">>,  \* hire
    <<"i","s","o">>,  \* iso
    <<"l","a","b","o","r">>  \* labor
  >>

\* the literals X of the regexes \bX\b of resident_pats (github_scrape.py:260)
resident_pats ==
  <<<<"i">>,  \* i
    <<"m","y">>,  \* my
    <<"m","e">>,  \* me
    <<"n","e","e","d">>,  \* need
    <<"h","e","l","p">>  \* help
  >>

\* str.replace("\n", " ")
replace_newline(s) == [i \in 1..Len(s) |-> IF s[i] = "\n" THEN " " ELSE s[i]]

\* str.split(): the words of s between runs of whitespace
RECURSIVE split(_)
split(s) ==
    IF Len(s) = 0 THEN <<>>
    ELSE IF s[1] \in {" ", "\n", "\t"} THEN split(Tail(s))
    ELSE
      LET ends == { i \in 1..Len(s) : s[i] \in {" ", "\n", "\t"} }
          stop == IF ends = {} THEN Len(s) + 1
                  ELSE CHOOSE i \in ends : \A j \in ends : i <= j
      IN  <<SubSeq(s, 1, stop - 1)>> \o split(SubSeq(s, stop, Len(s)))

\* score_lead
score_lead(text) ==
    LET s1 == IF any_search(personal, text) THEN 25 ELSE 0
        s2 == IF any_search(gh_help_pats, text) THEN 15 ELSE 0
        s3 == IF any_in(project_kw, text) THEN 10 ELSE 0
        s4 == IF str_in(<<"?">>, text) \/ any_in(anyone_pats, text) THEN 5 ELSE 0
        s5 == IF any_in(fl_cities, text) THEN 5 ELSE 0
    IN  s1 + s2 + s3 + s4 + s5

\* link.startswith("http"): the href k > 0 is the absolute URL of the posting
\* k, the href -k its relative href and 0 no href
is_absolute(link) == link > 0

\* f"{base_url}{link}" of a relative href
absolute(link) == IF is_absolute(link) THEN link ELSE 0 - link

\* the text parse_craigslist classifies for an item: the text of the item,
\* which holds its title, followed by the lower-cased title
item_text(item) ==
    LET title == item.title
        full_text == lower(IF Len(item.body) = 0 THEN title
                           ELSE title \o <<" ">> \o item.body)
    IN  replace_newline(full_text \o <<" ">> \o lower(title))

\* the loop of parse_craigslist from the item at index i on; stamps[i] is what
\* datetime.utcnow() returns in the iteration of item i.  A lead of
\* parse_craigslist has no Raw_Text, which its readers take as the empty
\* string (lead.get("Raw_Text", "")); its Agency and Closing_Date are left
\* out: no merge reads them.
RECURSIVE parse_loop(_, _, _, _)
parse_loop(items, i, stamps, leads) ==
    IF i > Len(items) THEN leads
    ELSE
      LET item == items[i]
          title == item.title
          link == IF item.href = 0 \/ is_absolute(item.href) THEN item.href
                  ELSE absolute(item.href)
          text == item_text(item)
          intro_words == LET ws == split(lower(title)) IN SubSeq(ws, 1, min(2, Len(ws)))
          needs_help == \E j \in 1..Len(intro_help_words) :
                            \E m \in 1..Len(intro_words) : intro_words[m] = intro_help_words[j]
          is_narrative == any_search(resident_pats, text)
          sc == score_lead(text)
      IN  IF link = 0 THEN parse_loop(items, i + 1, stamps, leads)
          ELSE IF any_in(PRO_FLAGS, text) THEN parse_loop(items, i + 1, stamps, leads)
          ELSE IF any_in(SALES_FLAGS, text) THEN parse_loop(items, i + 1, stamps, leads)
          ELSE IF ~ (is_narrative \/ needs_help) THEN parse_loop(items, i + 1, stamps, leads)
          ELSE IF sc < 20 THEN parse_loop(items, i + 1, stamps, leads)
          ELSE parse_loop(items, i + 1, stamps,
                 Append(leads,
                        [Source_URL  |-> link,
                         Job_Title   |-> SubSeq(title, 1, min(200, Len(title))),
                         Raw_Text    |-> <<>>,
                         Score       |-> sc,
                         Screened_At |-> stamps[i]]))

\* parse_craigslist, on the items of the pages in the order they are fetched
parse_craigslist(items, stamps) == parse_loop(items, 1, stamps, <<>>)

\* the loop of scrape_all over the parsed leads: a URL already in seen_urls
\* is not taken again
RECURSIVE first_seen(_, _)
first_seen(all_leads, leads) ==
    IF Len(leads) = 0 THEN all_leads
    ELSE IF \E j \in 1..Len(all_leads) : all_leads[j].Source_URL = Head(leads).Source_URL
    THEN first_seen(all_leads, Tail(leads))
    ELSE first_seen(Append(all_leads, Head(leads)), Tail(leads))

\* scrape_all
scrape_all(items, stamps) == first_seen(<<>>, parse_craigslist(items, stamps))

\* the capacity of the store: the 200 of "keep top 200" in update_leads_json,
\* scaled down so that a few leads fill the store
Capacity == 2

\* url_map of update_leads_json after the leads are put in it: a lead with an
\* empty Source_URL is skipped
RECURSIVE url_map_from(_, _)
url_map_from(url_map, leads) ==
    IF Len(leads) = 0 THEN url_map
    ELSE IF Head(leads).Source_URL = 0 THEN url_map_from(url_map, Tail(leads))
    ELSE url_map_from(dict_put(url_map, Head(leads)), Tail(leads))

\* update_leads_json that merges the batch into an empty map: the persisted
\* leads are not carried over
update_leads_json_overwrite(batch, existing) ==
    LET url_map == url_map_from(<<>>, batch)
        final == sorted_desc(url_map, "Screened_At")
    IN  SubSeq(final, 1, min(Capacity, Len(final)))

\* update_leads_json: the content written to the JSON store
update_leads_json(batch, existing) ==
    LET url_map == url_map_from(url_map_from(<<>>, existing), batch)
        final == sorted_desc(url_map, "Screened_At")
    IN  SubSeq(final, 1, min(Capacity, Len(final)))

----------------------------------------------------------------------------
(* Inputs of the pipeline and of the GitHub scraper *)

\* A Source_URL is a number, 0 for the empty string: the program compares URLs
\* with each other and with the empty string and does nothing else with them.
\* The URLs are found in the order 1, 2, ...: the sequences of at most n URLs
\* found after k URLs are known
RECURSIVE url_seqs(_, _)
url_seqs(n, k) ==
    IF n = 0 THEN { <<>> }
    ELSE { <<>> } \cup
         UNION { { <<u>> \o rest : rest \in url_seqs(n - 1, IF u > k THEN u ELSE k) }
                 : u \in 1..(k + 1) }

\* the number of URLs known after the URLs of us are found
known_after(k, us) ==
    IF \E i \in 1..Len(us) : us[i] > k
    THEN CHOOSE m \in { us[i] : i \in 1..Len(us) } :
             \A i \in 1..Len(us) : us[i] <= m
    ELSE k

\* the postings the connectors find: one scoring 25, one scoring 50, one
\* scoring 25 with a phrase of _final_scrub that the screener does not know,
\* and one with a professional-indicator word
PoolTexts ==
  { <<"M","y">>,  \* My
    <<"I"," ","n","e","e","d"," ","s","o","d">>,  \* I need sod
    <<"M","y"," ","c","a","l","l"," ","u","s"," ","t","o","d","a","y">>,  \* My call us today
    <<"b","o","n","d","e","d">>  \* bonded
  }

\* the items of the Craigslist result pages: one scoring 20 and one scoring 50
ItemTitles ==
  { <<"n","e","e","d"," ","m","i","a","m","i">>,  \* need miami
    <<"I"," ","n","e","e","d"," ","s","o","d">>  \* I need sod
  }

----------------------------------------------------------------------------
(* Inputs of the screener *)

\* the words candidate texts are made of: one per scoring category, a second
\* first-person word, a professional-indicator word and the second word of
\* the sales phrase "for sale"
Vocabulary ==
  { <<"M","y">>,  \* My
    <<"I">>,  \* I
    <<"n","e","e","d">>,  \* need
    <<"s","o","d">>,  \* sod
    <<"m","i","a","m","i">>,  \* miami
    <<"?">>,  \* ?
    <<"b","o","n","d","e","d">>,  \* bonded
    <<"s","a","l","e">>   \* sale
  }

\* the titles of candidates: empty, or a help-seeking word and the first word
\* of "for sale"
Titles == { <<>>, <<"N","e","e","d"," ","f","o","r">> }

\* the word sequences of at most n words
WordSeqs(n) == UNION { [1..k -> Vocabulary] : k \in 0..n }
----------------------------------------------------------------------------
(* The store files and the run of an entry point *)

\* the paths of the JSON stores: docs/leads.json (run_daily_scan and
\* github_scrape), C:/Users/futur/gemini_workspace/leads.json (the default of
\* format_output) and ./leads.json (the fallback of run_legacy_pipeline)
Paths == {"docs", "workspace", "local"}

\* no fault has occurred: connectors that failed, loads of a malformed store
\* file, writes of a store file that failed
no_faults == [connector |-> 0, read |-> 0, write |-> 0]

\* no summary has been returned
no_summary == [none |-> TRUE]

\* POSTs to /api/discover of the dashboard in one behaviour
MaxPosts == 2

\* the run of a POST that has not been received: where the run is, the batch
\* it has screened and the leads it has loaded from the store
no_proc == [pc |-> "none", screened_leads |-> <<>>, existing_leads |-> <<>>]

\* no entry point is running, no store file exists and the dashboard has
\* received no POST
no_run ==
    /\ disk = [p \in {"workspace", "local"} |-> <<>>]
    /\ file = [p \in Paths |-> "absent"]
    /\ entry = "none"
    /\ outcome = "none"
    /\ log = {}
    /\ summary = no_summary
    /\ faults = no_faults
    /\ procs = [p \in 1..MaxPosts |-> no_proc]


\* the dashboard has answered no GET /api/leads
no_response == [code |-> 0]

\* no Craigslist scraper is running
no_scan_run == [who |-> "none"]

\* discover_leads is not running: no connector task exists
no_gather == [phase |-> "none", holder |-> 0, tasks |-> <<>>]

\* the dashboard has answered no request, its store has held no lead, and no
\* connector is at work
no_scan ==
    /\ response = no_response
    /\ versions = { <<>> }
    /\ scan = no_scan_run
    /\ gather = no_gather
----------------------------------------------------------------------------
(* ScoutAgent.discover_leads and the MCP discovery it runs *)

\* the literals X of the regexes \bX\b of homeowner_patterns (mcp_integrations.py:378-390)
homeowner_patterns ==
  <<<<"i">>,  \* i
    <<"m","y">>,  \* my
    <<"m","e">>,  \* me
    <<"n","e","e","d">>,  \* need
    <<"h","e","l","p">>,  \* help
    <<"l","o","o","k","i","n","g"," ","f","o","r">>,  \* looking for
    <<"h","i","r","e">>,  \* hire
    <<"r","e","c","o","m","m","e","n","d">>,  \* recommend
    <<"o","u","r"," ","y","a","r","d">>,  \* our yard
    <<"m","y"," ","h","o","u","s","e">>,  \* my house
    <<"m","y"," ","l","a","w","n">>  \* my lawn
  >>

\* pro_patterns of _is_homeowner_intent (mcp_integrations.py:393-404)
pro_patterns ==
  <<<<"w","e"," ","p","r","o","v","i","d","e">>,  \* we provide
    <<"o","u","r"," ","c","o","m","p","a","n","y">>,  \* our company
    <<"l","i","c","e","n","s","e","d"," ","a","n","d"," ","i","n","s","u","r","e","d">>,  \* licensed and insured
    <<"f","r","e","e"," ","e","s","t","i","m","a","t","e">>,  \* free estimate
    <<"p","r","o","f","e","s","s","i","o","n","a","l">>,  \* professional
    <<"c","a","l","l"," ","u","s">>,  \* call us
    <<"o","u","r"," ","t","e","a","m">>,  \* our team
    <<"y","e","a","r","s"," ","o","f"," ","e","x","p","e","r","i","e","n","c","e">>,  \* years of experience
    <<"s","e","r","v","i","n","g">>,  \* serving
    <<"f","a","m","i","l","y"," ","o","w","n","e","d">>  \* family owned
  >>

\* SocialMediaScraper._is_homeowner_intent
_is_homeowner_intent(title, text) ==
    LET combined == lower(title \o <<" ">> \o text)
    IN  any_search(homeowner_patterns, combined) /\ ~ any_in(pro_patterns, combined)

\* the loop of scrape_reddit_posts over the posts of the result pages: a post
\* with homeowner intent becomes a Lead whose source_url is "link or ''" (0 is
\* the empty string) and whose raw_text is "Reddit post: {title}"; to_dict
\* turns the Lead into the dict discover_leads appends
RECURSIVE scrape_reddit_posts(_)
scrape_reddit_posts(posts) ==
    IF Len(posts) = 0 THEN <<>>
    ELSE IF _is_homeowner_intent(Head(posts).title, <<>>)
    THEN <<[Source_URL |-> Head(posts).link,
            Job_Title  |-> Head(posts).title,
            Raw_Text   |-> <<"R","e","d","d","i","t"," ","p","o","s","t",":"," ">> \o Head(posts).title]>>
         \o scrape_reddit_posts(Tail(posts))
    ELSE scrape_reddit_posts(Tail(posts))

\* MCPLeadAggregator.run_discovery: the Reddit leads, the first of each
\* source_url
run_discovery(posts) == first_seen(<<>>, scrape_reddit_posts(posts))

\* traditional_tasks of discover_leads: the scrape() of the four traditional
\* scrapers, in the order asyncio.gather returns their results
traditional_tasks == <<"craigslist", "google", "miami", "broward">>

\* the loop of discover_leads over the results asyncio.gather returns, in the
\* order of the tasks: a list extends results, an exception is logged
RECURSIVE extend_results(_, _)
extend_results(results, traditional_results) ==
    IF Len(traditional_results) = 0 THEN results
    ELSE extend_results(IF Head(traditional_results).ok
                        THEN results \o Head(traditional_results).leads
                        ELSE results,
                        Tail(traditional_results))

\* ScoutAgent.discover_leads: the raw leads it returns, from the results of
\* the four traditional scrapers and of the MCP discovery
discover_leads(traditional_results, use_mcp, mcp_result) ==
    LET results == extend_results(<<>>, traditional_results)
    IN  IF use_mcp /\ mcp_result.ok THEN results \o mcp_result.leads ELSE results

\* the warnings discover_leads logs
discover_leads_warnings(traditional_results, use_mcp, mcp_result) ==
    (IF \E c \in 1..Len(traditional_results) : ~ traditional_results[c].ok
     THEN {"Traditional scraper error"} ELSE {})
    \cup (IF use_mcp /\ ~ mcp_result.ok THEN {"MCP discovery error"} ELSE {})

----------------------------------------------------------------------------
(* The values datetime.now() returns during one call that reads the clock
   once per item, from the time t of the first read on: the clock never runs
   backwards and two reads may return the same value (ticks[i] is the time
   that passes between the reads i and i+1) *)

RECURSIVE stamps_from(_, _)
stamps_from(t, ticks) ==
    IF Len(ticks) = 0 THEN <<t>>
    ELSE <<t>> \o stamps_from(t + ticks[1], Tail(ticks))

last_stamp(t, stamps) == IF Len(stamps) = 0 THEN t ELSE stamps[Len(stamps)]

----------------------------------------------------------------------------
(* The screener on its own: batches of candidates over Vocabulary *)

\* the decision screen has taken on the lead at index i of leads
decision_of(leads, i, filtered, run) ==
    LET hits == { k \in 1..Len(filtered) : filtered[k].Source_URL = leads[i].Source_URL }
    IN  [run       |-> run,
         pos       |-> i,
         Job_Title |-> leads[i].Job_Title,
         Raw_Text  |-> leads[i].Raw_Text,
         accepted  |-> hits # {},
         Score     |-> IF hits = {} THEN 0 ELSE filtered[CHOOSE k \in hits : TRUE].Score]

InitScreen ==
    /\ store = <<>>
    /\ raw_leads = <<>>
    /\ screened_leads = <<>>
    /\ new_leads = <<>>
    /\ pc = "idle"
    /\ clock = 0
    /\ decisions = {}
    /\ used = 0
    /\ fresh = 0
    /\ last = [op |-> "none"]
    /\ no_run
    /\ no_scan

\* a connector hands one more candidate to the batch of the run; the i-th
\* candidate of a batch is the posting of URL i
Candidate ==
    /\ pc = "idle"
    /\ Len(raw_leads) < MaxBatch
    /\ used < MaxInput
    /\ clock < MaxClock
    /\ \E title \in Titles, words \in WordSeqs(MaxInput - used - 1) :
         /\ raw_leads' = Append(raw_leads,
                                [Source_URL |-> Len(raw_leads) + 1,
                                 Job_Title  |-> title,
                                 Raw_Text   |-> join(words)])
         /\ used' = used + 1 + Len(words)
    /\ UNCHANGED <<store, screened_leads, new_leads, pc, clock, decisions, fresh, last>>
    /\ UNCHANGED run_vars
    /\ UNCHANGED ext_vars

\* screener.screen(raw_leads)
Screen ==
    /\ pc = "idle"
    /\ Len(raw_leads) > 0
    /\ \E ticks \in [1..(Len(raw_leads) - 1) -> 0..1] :
         LET stamps == stamps_from(clock + 1, ticks)
             filtered == screen(raw_leads, stamps)
         IN  /\ last_stamp(clock + 1, stamps) <= MaxClock
             /\ screened_leads' = filtered
             /\ clock' = last_stamp(clock + 1, stamps)
             /\ decisions' = decisions \cup
                   { decision_of(raw_leads, i, filtered, clock) : i \in 1..Len(raw_leads) }
    /\ pc' = "screened"
    /\ UNCHANGED <<store, raw_leads, new_leads, used, fresh, last>>
    /\ UNCHANGED run_vars
    /\ UNCHANGED ext_vars

\* the run is over; the next one starts from an empty batch
NextRun ==
    /\ pc = "screened"
    /\ raw_leads' = <<>>
    /\ screened_leads' = <<>>
    /\ pc' = "idle"
    /\ UNCHANGED <<store, new_leads, clock, decisions, used, fresh, last>>
    /\ UNCHANGED run_vars
    /\ UNCHANGED ext_vars

NextScreen == Candidate \/ Screen \/ NextRun

SpecScreen == InitScreen /\ [][NextScreen]_vars


----------------------------------------------------------------------------
(* The runs that write the store: the agent pipeline of run_daily_scan
   (ScoutAgent, ScreenerAgent, FormatterAgent) and github_scrape.main, which
   both write docs/leads.json *)

Init ==
    /\ store = <<>>
    /\ raw_leads = <<>>
    /\ screened_leads = <<>>
    /\ new_leads = <<>>
    /\ pc = "idle"
    /\ clock = 0
    /\ decisions = {}
    /\ used = 0
    /\ fresh = 0
    /\ last = [op |-> "none"]
    /\ no_run
    /\ no_scan

\* scout.discover_leads(): the candidates the connectors found
DiscoverLeads ==
    /\ pc = "idle"
    /\ clock < MaxClock
    /\ \E us \in url_seqs(min(MaxBatch, MaxLeads - used), fresh) :
         \E ts \in [1..Len(us) -> PoolTexts] :
           /\ raw_leads' = [i \in 1..Len(us) |->
                               [Source_URL |-> us[i], Job_Title |-> <<>>, Raw_Text |-> ts[i]]]
           /\ used' = used + Len(us)
           /\ fresh' = known_after(fresh, us)
    /\ pc' = "discovered"
    /\ clock' = clock + 1
    /\ last' = [op |-> "none"]
    /\ UNCHANGED <<store, screened_leads, new_leads, decisions>>
    /\ UNCHANGED run_vars
    /\ UNCHANGED ext_vars

\* run_daily_scan after discovery: "if not raw_leads: return", else
\* screener.screen(raw_leads)
ScreenLeads ==
    /\ pc = "discovered"
    /\ IF Len(raw_leads) = 0
       THEN /\ pc' = "idle"
            /\ UNCHANGED <<screened_leads, clock>>
       ELSE \E ticks \in [1..(Len(raw_leads) - 1) -> 0..1] :
              LET stamps == stamps_from(clock, ticks)
              IN  /\ screened_leads' = screen(raw_leads, stamps)
                  /\ clock' = last_stamp(clock, stamps)
                  /\ pc' = "screened"
    /\ UNCHANGED <<store, raw_leads, new_leads, decisions, used, fresh, last>>
    /\ UNCHANGED run_vars
    /\ UNCHANGED ext_vars

\* run_daily_scan after screening: "if not screened_leads: return", else
\* formatter.format_output(screened_leads, output_path_base=DOCS_OUTPUT_PATH)
FormatOutput ==
    /\ pc = "screened"
    /\ store' = format_output(screened_leads, store)
    /\ last' = IF Len(screened_leads) = 0 THEN [op |-> "none"]
               ELSE [op |-> "format_output", existing |-> store, batch |-> screened_leads,
                     raw |-> raw_leads]
    /\ raw_leads' = <<>>
    /\ screened_leads' = <<>>
    /\ pc' = "idle"
    /\ file' = IF Len(screened_leads) = 0 THEN file ELSE [file EXCEPT !["docs"] = "valid"]
    /\ UNCHANGED <<new_leads, clock, decisions, used, fresh>>
    /\ UNCHANGED <<disk, entry, outcome, log, summary, faults, procs>>
    /\ UNCHANGED ext_vars

\* github_scrape.main: leads = await scrape_all()
ScrapeAll ==
    /\ pc = "idle"
    /\ clock < MaxClock
    /\ \E us \in url_seqs(min(MaxBatch, MaxLeads - used), fresh) :
         \E ts \in [1..Len(us) -> ItemTitles] :
           \E ticks \in [1..(Len(us) - 1) -> 0..1] :
             LET items == [i \in 1..Len(us) |->
                             [href |-> us[i], title |-> ts[i], body |-> <<>>]]
                 stamps == stamps_from(clock + 1, ticks)
             IN  /\ new_leads' = scrape_all(items, stamps)
                 /\ clock' = last_stamp(clock + 1, stamps)
                 /\ used' = used + Len(us)
                 /\ fresh' = known_after(fresh, us)
    /\ pc' = "scraped"
    /\ last' = [op |-> "none"]
    /\ UNCHANGED <<store, raw_leads, screened_leads, decisions>>
    /\ UNCHANGED run_vars
    /\ UNCHANGED ext_vars

\* github_scrape.main after the scrape: "if not leads: return", else
\* update_leads_json(leads)
UpdateLeadsJson ==
    /\ pc = "scraped"
    /\ IF Len(new_leads) = 0
       THEN UNCHANGED <<store, last>>
       ELSE /\ store' = update_leads_json(new_leads, store)
            /\ last' = [op |-> "update_leads_json", existing |-> store, batch |-> new_leads]
    /\ new_leads' = <<>>
    /\ pc' = "idle"
    /\ file' = IF Len(new_leads) = 0 THEN file ELSE [file EXCEPT !["docs"] = "valid"]
    /\ UNCHANGED <<raw_leads, screened_leads, clock, decisions, used, fresh>>
    /\ UNCHANGED <<disk, entry, outcome, log, summary, faults, procs>>
    /\ UNCHANGED ext_vars

Next == DiscoverLeads \/ ScreenLeads \/ FormatOutput \/ ScrapeAll \/ UpdateLeadsJson

Spec == Init /\ [][Next]_vars
----------------------------------------------------------------------------
(* The entry points and the faults of their runs: run_full_pipeline,
   run_legacy_pipeline, run_daily_scan and github_scrape.main, with
   connectors that fail, store files that cannot be written and a process
   that dies while it writes a store file *)

\* connectors that fail in one run
MaxFailures == 1
\* posts the Reddit scraper reads in one run
MaxRedditPosts == 1
\* candidates, posts and items found in one behaviour of SpecRuns
MaxCandidates == 2
\* last value of the clock in SpecRuns; no run starts after it
MaxRunClock == 2

\* the entry points that run the agents
PipelineEntries == {"run_full_pipeline", "run_legacy_pipeline", "run_daily_scan"}

\* ScoutAgent(use_mcp=...) of the entry point: LeadPipelineOrchestrator is
\* built with use_mcp=True by main, the two others pass use_mcp=False
use_mcp(e) == e = "run_full_pipeline"

\* the store the entry point merges into: run_daily_scan passes
\* DOCS_OUTPUT_PATH, the two others take the default of format_output
store_path(e) == IF e \in {"run_daily_scan", "main"} THEN "docs" ELSE "workspace"

\* the leads in the store file at a path
content_of(path) == IF path = "docs" THEN store ELSE disk[path]

\* existing_leads of format_output after the load: [] when the file does not
\* exist, when its content is blank and when json.loads raises
format_output_existing(status, content) == IF status = "valid" THEN content ELSE <<>>

\* the load of format_output logs "Could not load existing leads": only an
\* exception is logged, and blank content is never parsed
format_output_warns(status) == status = "partial"

\* format_output that writes the store whatever the batch
format_output_writes_always(batch) == TRUE

\* format_output goes on to load, merge and write: "if not screened_leads:
\* return None"
format_output_writes(batch) == Len(batch) > 0

\* existing of update_leads_json after the load: [] when the file does not
\* exist and when json.load raises; nothing is logged
update_leads_json_existing(status, content) == IF status = "valid" THEN content ELSE <<>>

\* the load found a store file that is not a JSON text
read_fault(status) == IF status \in {"empty", "partial"} THEN 1 ELSE 0

\* f"{(verified / max(raw, 1)) * 100:.1f}%" of the summary, in tenths of a
\* percent
conversion_rate(verified, raw) ==
    LET m == IF raw > 1 THEN raw ELSE 1
    IN  (2000 * verified + m) \div (2 * m)

\* the summary run_full_pipeline returns; output is the pair of paths
\* format_output returned, or None
summary_of(raw, screened, output, now) ==
    [run_timestamp   |-> now,
     raw_leads_found |-> Len(raw),
     verified_leads  |-> Len(screened),
     conversion_rate |-> conversion_rate(Len(screened), Len(raw)),
     output_files    |-> output]

\* the postings the traditional scrapers find: one scoring 25 and one with a
\* professional-indicator word
RunTexts ==
  { <<"M","y">>,  \* My
    <<"b","o","n","d","e","d">>  \* bonded
  }

\* the titles of the Reddit posts: one with homeowner intent, one without
RedditTitles ==
  { <<"M","y">>,  \* My
    <<"b","o","n","d","e","d">>  \* bonded
  }

\* the posts of the Reddit result pages when k URLs are known: each has a
\* title and a link, which is missing (0), known or new
reddit_posts(k) ==
    UNION { [1..n -> [title : RedditTitles, link : 0..(k + 1)]] : n \in 0..MaxRedditPosts }

\* the candidates at the indices of leads that owner gives to the scraper c
owned(leads, owner, c) ==
    SelectSeq([i \in 1..Len(leads) |-> [lead |-> leads[i], by |-> owner[i]]],
              LAMBDA x : x.by = c)

\* the leads of a sequence of owned candidates
leads_only(xs) == [i \in 1..Len(xs) |-> xs[i].lead]

\* raw_leads = await scout.discover_leads(): each of the four traditional
\* scrapers returns a list or fails; with use_mcp the MCP discovery runs after
\* them and returns its leads or fails
RunDiscover(e) ==
    /\ pc = "idle"
    /\ clock < MaxRunClock
    /\ \E us \in url_seqs(MaxCandidates - used, fresh) :
         \E ts \in [1..Len(us) -> RunTexts],
            owner \in { o \in [1..Len(us) -> 1..Len(traditional_tasks)] :
                          \A i, j \in 1..Len(us) : i < j => o[i] <= o[j] },
            mcp_ok \in IF use_mcp(e) THEN BOOLEAN ELSE {TRUE} :
           \E F \in { G \in SUBSET (1..Len(traditional_tasks)) :
                        /\ \A i \in 1..Len(us) : owner[i] \notin G
                        /\ Cardinality(G) + (IF mcp_ok THEN 0 ELSE 1) <= MaxFailures },
              posts \in IF use_mcp(e) /\ mcp_ok
                        THEN { ps \in reddit_posts(known_after(fresh, us)) :
                                 Len(us) + Len(ps) <= MaxCandidates - used }
                        ELSE { <<>> } :
             LET leads == [i \in 1..Len(us) |->
                             [Source_URL |-> us[i], Job_Title |-> <<>>, Raw_Text |-> ts[i]]]
                 traditional_results ==
                     [c \in 1..Len(traditional_tasks) |->
                        [ok |-> c \notin F, leads |-> leads_only(owned(leads, owner, c))]]
                 mcp_result == [ok |-> mcp_ok, leads |-> run_discovery(posts)]
                 links == SelectSeq([i \in 1..Len(posts) |-> posts[i].link],
                                    LAMBDA l : l # 0)
             IN  /\ raw_leads' = discover_leads(traditional_results, use_mcp(e), mcp_result)
                 /\ log' = discover_leads_warnings(traditional_results, use_mcp(e), mcp_result)
                 /\ faults' = [no_faults EXCEPT
                                 !.connector = Cardinality(F) + (IF mcp_ok THEN 0 ELSE 1)]
                 /\ used' = used + Len(us) + Len(posts)
                 /\ fresh' = known_after(known_after(fresh, us), links)
    /\ entry' = e
    /\ outcome' = "running"
    /\ summary' = no_summary
    /\ pc' = "discovered"
    /\ clock' = clock + 1
    /\ last' = [op |-> "none"]
    /\ UNCHANGED <<store, disk, file, screened_leads, new_leads, decisions>>
    /\ UNCHANGED procs
    /\ UNCHANGED ext_vars

\* after the discovery: run_legacy_pipeline and run_daily_scan return when
\* there is no raw lead; otherwise screener.screen(raw_leads)
RunScreen ==
    /\ pc = "discovered"
    /\ entry \in PipelineEntries
    /\ IF entry # "run_full_pipeline" /\ Len(raw_leads) = 0
       THEN /\ pc' = "ended"
            /\ outcome' = "returned"
            /\ log' = log \cup {"No raw leads found"}
            /\ UNCHANGED <<screened_leads, clock>>
       ELSE \E ticks \in [1..(Len(raw_leads) - 1) -> 0..1] :
              LET stamps == stamps_from(clock, ticks)
              IN  /\ screened_leads' = screen(raw_leads, stamps)
                  /\ clock' = last_stamp(clock, stamps)
                  /\ pc' = "screened"
                  /\ UNCHANGED <<outcome, log>>
    /\ UNCHANGED <<store, disk, file, raw_leads, new_leads, decisions, used, fresh, last,
                   entry, summary, faults>>
    /\ UNCHANGED procs
    /\ UNCHANGED ext_vars

\* the write of a store file: json.dump into open(json_path, "w")
WriteStore(path, content) ==
    /\ IF path = "docs"
       THEN store' = content /\ disk' = disk
       ELSE store' = store /\ disk' = [disk EXCEPT ![path] = content]
    /\ file' = [file EXCEPT ![path] = "valid"]

\* what the load of format_output logs at a path
load_warnings(path) ==
    IF format_output_warns(file[path]) THEN {"Could not load existing leads"} ELSE {}

\* after the screening: run_legacy_pipeline and run_daily_scan return when no
\* lead is accepted; otherwise formatter.format_output(screened_leads), which
\* writes the store unless the batch is empty; run_full_pipeline then returns
\* its summary
RunFormat ==
    /\ pc = "screened"
    /\ entry \in PipelineEntries
    /\ LET path == store_path(entry)
           existing_leads == format_output_existing(file[path], content_of(path))
       IN  IF entry # "run_full_pipeline" /\ Len(screened_leads) = 0
           THEN /\ log' = IF entry = "run_legacy_pipeline"
                          THEN log \cup {"No leads passed the screening criteria"}
                          ELSE log
                /\ UNCHANGED <<store, disk, file, summary, faults, last>>
           ELSE IF ~ format_output_writes(screened_leads)
           THEN /\ summary' = summary_of(raw_leads, screened_leads, <<>>, clock)
                /\ UNCHANGED <<store, disk, file, log, faults, last>>
           ELSE /\ WriteStore(path, format_output_final_list(screened_leads, existing_leads))
                /\ log' = log \cup load_warnings(path)
                /\ faults' = [faults EXCEPT !.read = @ + read_fault(file[path])]
                /\ last' = [op |-> "format_output", path |-> path, status |-> file[path],
                            existing |-> existing_leads, batch |-> screened_leads,
                            raw |-> raw_leads]
                /\ summary' = IF entry = "run_full_pipeline"
                              THEN summary_of(raw_leads, screened_leads,
                                              <<"csv_path", "json_path">>, clock)
                              ELSE summary
    /\ outcome' = "returned"
    /\ pc' = "ended"
    /\ UNCHANGED <<raw_leads, screened_leads, new_leads, clock, decisions, used, fresh, entry>>
    /\ UNCHANGED procs
    /\ UNCHANGED ext_vars

\* formatter.format_output(screened_leads) when open(json_path, "w") raises:
\* the exception leaves run_full_pipeline and run_daily_scan;
\* run_legacy_pipeline logs it and calls format_output(screened_leads,
\* output_path_base="./leads"), whose write succeeds or raises in turn
RunFormatFails ==
    /\ pc = "screened"
    /\ entry \in PipelineEntries
    /\ format_output_writes(screened_leads)
    /\ LET path == store_path(entry)
           local_leads == format_output_existing(file["local"], disk["local"])
       IN  IF entry # "run_legacy_pipeline"
           THEN /\ outcome' = "raised"
                /\ log' = log \cup load_warnings(path)
                /\ faults' = [faults EXCEPT !.read = @ + read_fault(file[path]),
                                            !.write = @ + 1]
                /\ UNCHANGED <<store, disk, file, last>>
           ELSE \E fails \in BOOLEAN :
                  IF fails
                  THEN /\ outcome' = "raised"
                       /\ log' = log \cup load_warnings(path) \cup {"Error saving files"}
                                     \cup load_warnings("local")
                       /\ faults' = [faults EXCEPT
                                       !.read = @ + read_fault(file[path])
                                                  + read_fault(file["local"]),
                                       !.write = @ + 2]
                       /\ UNCHANGED <<store, disk, file, last>>
                  ELSE /\ outcome' = "returned"
                       /\ WriteStore("local",
                                     format_output_final_list(screened_leads, local_leads))
                       /\ log' = log \cup load_warnings(path) \cup {"Error saving files"}
                                     \cup load_warnings("local")
                       /\ faults' = [faults EXCEPT
                                       !.read = @ + read_fault(file[path])
                                                  + read_fault(file["local"]),
                                       !.write = @ + 1]
                       /\ last' = [op |-> "format_output", path |-> "local",
                                   status |-> file["local"],
                                   existing |-> local_leads, batch |-> screened_leads,
                                   raw |-> raw_leads]
    /\ pc' = "ended"
    /\ UNCHANGED <<raw_leads, screened_leads, new_leads, clock, decisions, used, fresh,
                   entry, summary>>
    /\ UNCHANGED procs
    /\ UNCHANGED ext_vars

\* formatter.format_output(screened_leads) when it raises after
\* open(json_path, "w") has succeeded: in json.dump, which leaves the store
\* file with nothing or with a prefix of the text, or in to_csv, which is
\* called after the JSON store is written and only when final_list is not
\* empty.  The exception leaves run_full_pipeline and run_daily_scan;
\* run_legacy_pipeline logs it and calls format_output(screened_leads,
\* output_path_base="./leads"), which writes ./leads.json or raises in turn
RunFormatFailsLate ==
    /\ pc = "screened"
    /\ entry \in PipelineEntries
    /\ format_output_writes(screened_leads)
    /\ LET path == store_path(entry)
           existing_leads == format_output_existing(file[path], content_of(path))
           final_list == format_output_final_list(screened_leads, existing_leads)
           local_leads == format_output_existing(file["local"], disk["local"])
           local_list == format_output_final_list(screened_leads, local_leads)
       IN  \E at \in {"json.dump", "to_csv"} :
             /\ at = "to_csv" => Len(final_list) > 0
             /\ \E left \in IF at = "to_csv" THEN {"valid"} ELSE {"empty", "partial"},
                   fallback \in IF entry = "run_legacy_pipeline"
                                THEN {"written", "raised"} ELSE {"none"} :
                  LET written == IF at = "to_csv" THEN final_list ELSE <<>>
                  IN  /\ store' = IF path = "docs" THEN written ELSE store
                      /\ disk' = [p \in DOMAIN disk |->
                                    IF p = path THEN written
                                    ELSE IF p = "local" /\ fallback = "written"
                                    THEN local_list ELSE disk[p]]
                      /\ file' = [p \in Paths |->
                                    IF p = path THEN left
                                    ELSE IF p = "local" /\ fallback = "written"
                                    THEN "valid" ELSE file[p]]
                      /\ outcome' = IF fallback = "written" THEN "returned" ELSE "raised"
                      /\ log' = log \cup load_warnings(path)
                                    \cup (IF fallback = "none" THEN {}
                                          ELSE {"Error saving files"} \cup load_warnings("local"))
                      /\ faults' = [faults EXCEPT
                                      !.read = @ + read_fault(file[path])
                                                 + (IF fallback = "none" THEN 0
                                                    ELSE read_fault(file["local"])),
                                      !.write = @ + (IF fallback = "raised" THEN 2 ELSE 1)]
                      /\ last' = [op |-> "format_output raised", path |-> path, at |-> at,
                                  before |-> [status |-> file[path],
                                              leads |-> content_of(path)]]
    /\ pc' = "ended"
    /\ UNCHANGED <<raw_leads, screened_leads, new_leads, clock, decisions, used, fresh,
                   entry, summary>>
    /\ UNCHANGED procs
    /\ UNCHANGED ext_vars

\* github_scrape.main: leads = await scrape_all()
RunScrape ==
    /\ pc = "idle"
    /\ clock < MaxRunClock
    /\ \E us \in url_seqs(MaxCandidates - used, fresh) :
         \E ts \in [1..Len(us) -> ItemTitles] :
           \E ticks \in [1..(Len(us) - 1) -> 0..1] :
             LET items == [i \in 1..Len(us) |->
                             [href |-> us[i], title |-> ts[i], body |-> <<>>]]
                 stamps == stamps_from(clock + 1, ticks)
             IN  /\ new_leads' = scrape_all(items, stamps)
                 /\ clock' = last_stamp(clock + 1, stamps)
                 /\ used' = used + Len(us)
                 /\ fresh' = known_after(fresh, us)
    /\ entry' = "main"
    /\ outcome' = "running"
    /\ log' = {}
    /\ summary' = no_summary
    /\ faults' = no_faults
    /\ pc' = "scraped"
    /\ last' = [op |-> "none"]
    /\ UNCHANGED <<store, disk, file, raw_leads, screened_leads, decisions>>
    /\ UNCHANGED procs
    /\ UNCHANGED ext_vars

\* github_scrape.main after the scrape: "if not leads: return", else
\* update_leads_json(leads)
RunUpdate ==
    /\ pc = "scraped"
    /\ entry = "main"
    /\ LET existing == update_leads_json_existing(file["docs"], store)
       IN  IF Len(new_leads) = 0
           THEN UNCHANGED <<store, disk, file, faults, last>>
           ELSE /\ WriteStore("docs", update_leads_json(new_leads, existing))
                /\ faults' = [faults EXCEPT !.read = @ + read_fault(file["docs"])]
                /\ last' = [op |-> "update_leads_json", path |-> "docs",
                            status |-> file["docs"],
                            existing |-> existing, batch |-> new_leads]
    /\ outcome' = "returned"
    /\ pc' = "ended"
    /\ UNCHANGED <<raw_leads, screened_leads, new_leads, clock, decisions, used, fresh,
                   entry, log, summary>>
    /\ UNCHANGED procs
    /\ UNCHANGED ext_vars

\* update_leads_json(leads) when os.makedirs or open(json_path, "w") raises:
\* the exception leaves main
RunUpdateFails ==
    /\ pc = "scraped"
    /\ entry = "main"
    /\ Len(new_leads) > 0
    /\ outcome' = "raised"
    /\ faults' = [faults EXCEPT !.read = @ + read_fault(file["docs"]), !.write = @ + 1]
    /\ pc' = "ended"
    /\ UNCHANGED <<store, disk, file, raw_leads, screened_leads, new_leads, clock, decisions,
                   used, fresh, last, entry, log, summary>>
    /\ UNCHANGED procs
    /\ UNCHANGED ext_vars

\* the process dies in the persist step of format_output or update_leads_json,
\* after open(json_path, "w") has truncated the store file and before json.dump
\* has written the whole text and the file is closed: the file is left with
\* nothing, or with a proper prefix of the text
Crash ==
    /\ \/ pc = "screened" /\ entry \in PipelineEntries /\ format_output_writes(screened_leads)
       \/ pc = "scraped" /\ entry = "main" /\ Len(new_leads) > 0
    /\ LET path == store_path(entry)
           existing == IF entry = "main"
                       THEN update_leads_json_existing(file[path], content_of(path))
                       ELSE format_output_existing(file[path], content_of(path))
       IN  /\ IF path = "docs"
              THEN store' = <<>> /\ disk' = disk
              ELSE store' = store /\ disk' = [disk EXCEPT ![path] = <<>>]
           /\ \E left \in {"empty", "partial"} : file' = [file EXCEPT ![path] = left]
           /\ log' = IF entry = "main" THEN log ELSE log \cup load_warnings(path)
           /\ faults' = [faults EXCEPT !.read = @ + read_fault(file[path])]
           /\ last' = [op |-> "crash", path |-> path,
                       before |-> [status |-> file[path], leads |-> content_of(path)],
                       after |-> IF entry = "main"
                                 THEN update_leads_json(new_leads, existing)
                                 ELSE format_output_final_list(screened_leads, existing)]
    /\ outcome' = "crashed"
    /\ pc' = "ended"
    /\ UNCHANGED <<raw_leads, screened_leads, new_leads, clock, decisions, used, fresh,
                   entry, summary>>
    /\ UNCHANGED procs
    /\ UNCHANGED ext_vars

\* the process of the entry point is gone; the next run starts from the store
\* files alone
RunExit ==
    /\ pc = "ended"
    /\ pc' = "idle"
    /\ raw_leads' = <<>>
    /\ screened_leads' = <<>>
    /\ new_leads' = <<>>
    /\ entry' = "none"
    /\ outcome' = "none"
    /\ log' = {}
    /\ summary' = no_summary
    /\ faults' = no_faults
    /\ last' = [op |-> "none"]
    /\ UNCHANGED <<store, disk, file, clock, decisions, used, fresh>>
    /\ UNCHANGED procs
    /\ UNCHANGED ext_vars

NextRuns ==
    \/ \E e \in PipelineEntries : RunDiscover(e)
    \/ RunScreen
    \/ RunFormat
    \/ RunFormatFails
    \/ RunFormatFailsLate
    \/ RunScrape
    \/ RunUpdate
    \/ RunUpdateFails
    \/ Crash
    \/ RunExit

SpecRuns == Init /\ [][NextRuns]_vars

----------------------------------------------------------------------------
(* The dashboard: each POST to /api/discover starts, in a thread of its own,
   a subprocess that runs main.py, whose default mode is run_full_pipeline;
   the runs of several POSTs proceed side by side on the store at the default
   path of format_output *)

\* discover(): the handler starts the thread of run_scout and returns 202
discover(p) ==
    /\ procs[p].pc = "none"
    /\ procs' = [procs EXCEPT ![p].pc = "started"]
    /\ UNCHANGED <<store, raw_leads, screened_leads, new_leads, pc, clock, decisions, used,
                   fresh, last, disk, file, entry, outcome, log, summary, faults>>
    /\ UNCHANGED ext_vars

\* run_scout(): the subprocess discovers and screens its candidates, then
\* calls format_output, which returns at once when the batch is empty
run_scout(p) ==
    /\ procs[p].pc = "started"
    /\ clock < MaxRunClock
    /\ \E us \in url_seqs(MaxCandidates - used, fresh) :
         \E ts \in [1..Len(us) -> RunTexts] :
           \E ticks \in [1..(Len(us) - 1) -> 0..1] :
             LET leads == [i \in 1..Len(us) |->
                             [Source_URL |-> us[i], Job_Title |-> <<>>, Raw_Text |-> ts[i]]]
                 stamps == stamps_from(clock + 1, ticks)
                 batch == screen(leads, stamps)
             IN  /\ procs' = [procs EXCEPT
                                ![p].screened_leads = batch,
                                ![p].pc = IF format_output_writes(batch)
                                          THEN "screened" ELSE "done"]
                 /\ clock' = last_stamp(clock + 1, stamps)
                 /\ used' = used + Len(us)
                 /\ fresh' = known_after(fresh, us)
    /\ UNCHANGED <<store, raw_leads, screened_leads, new_leads, pc, decisions, last,
                   disk, file, entry, outcome, log, summary, faults>>
    /\ UNCHANGED ext_vars

\* format_output of the subprocess: the load of the existing leads
load_existing(p) ==
    /\ procs[p].pc = "screened"
    /\ procs' = [procs EXCEPT
                   ![p].existing_leads =
                       format_output_existing(file["workspace"], disk["workspace"]),
                   ![p].pc = "loaded"]
    /\ UNCHANGED <<store, raw_leads, screened_leads, new_leads, pc, clock, decisions, used,
                   fresh, last, disk, file, entry, outcome, log, summary, faults>>
    /\ UNCHANGED ext_vars

\* format_output of the subprocess: the merge of the batch with the leads it
\* has loaded, and open(json_path, "w"), which truncates the store file
open_output(p) ==
    /\ procs[p].pc = "loaded"
    /\ disk' = [disk EXCEPT !["workspace"] = <<>>]
    /\ file' = [file EXCEPT !["workspace"] = "empty"]
    /\ procs' = [procs EXCEPT ![p].pc = "writing"]
    /\ UNCHANGED <<store, raw_leads, screened_leads, new_leads, pc, clock, decisions, used,
                   fresh, last, entry, outcome, log, summary, faults>>
    /\ UNCHANGED ext_vars

\* format_output of the subprocess: json.dump has written the merged list and
\* the file is closed
write_output(p) ==
    /\ procs[p].pc = "writing"
    /\ LET final_list == format_output_final_list(procs[p].screened_leads,
                                                  procs[p].existing_leads)
       IN  /\ WriteStore("workspace", final_list)
           /\ versions' = versions \cup {final_list}
    /\ procs' = [procs EXCEPT ![p].pc = "done"]
    /\ UNCHANGED <<raw_leads, screened_leads, new_leads, pc, clock, decisions, used,
                   fresh, last, entry, outcome, log, summary, faults>>
    /\ UNCHANGED <<response, scan, gather>>

\* LEADS_PATH of the dashboard, ../leads.json from its directory: the store
\* the pipeline writes when the dashboard is served from the directory next to
\* main.py in C:/Users/futur/gemini_workspace
LEADS_PATH == "workspace"

\* get_leads(): GET /api/leads returns the list json.load reads from LEADS_PATH,
\* [] when there is no file, and an error with status 500 when json.load raises
get_leads ==
    /\ response' = IF file[LEADS_PATH] = "absent" THEN [code |-> 200, data |-> <<>>]
                   ELSE IF file[LEADS_PATH] = "valid"
                   THEN [code |-> 200, data |-> content_of(LEADS_PATH)]
                   ELSE [code |-> 500]
    /\ UNCHANGED <<store, raw_leads, screened_leads, new_leads, pc, clock, decisions, used,
                   fresh, last, disk, file, entry, outcome, log, summary, faults, procs>>
    /\ UNCHANGED <<versions, scan, gather>>

NextDashboard ==
    \/ \E p \in 1..MaxPosts :
          \/ discover(p)
          \/ run_scout(p)
          \/ load_existing(p)
          \/ open_output(p)
          \/ write_output(p)
    \/ get_leads

SpecDashboard == Init /\ [][NextDashboard]_vars
----------------------------------------------------------------------------
(* The page loops of the Craigslist scrapers: CraigslistScraper.scrape of
   scrapers.py and scrape_all of scripts/github_scrape.py.  The href of a
   posting is a number: k > 0 for the absolute URL of the posting k, -k for
   its relative href (which does not start with "http"), 0 for no href. *)

\* length of the lists of regions, categories, search queries and extra bases
\* a scraper is configured with
MaxListLen == 3
\* items on the result pages of one scrape
MaxItems == 2

\* the cap on the targets of a scrape: targets[:15] of CraigslistScraper.scrape
\* and targets[:18] of scrape_all
targets_cap(who) == IF who = "craigslist" THEN 15 ELSE 18

\* len(targets) after the nested loops: one target for each region, category
\* and query, and in scrape_all also for each category and query of each extra
\* base, which has the single region ""
len_targets(who, regions, categories, queries, extra_bases) ==
    IF who = "craigslist" THEN regions * categories * queries
    ELSE (regions + extra_bases) * categories * queries

\* the length of the list of targets when it is not cut
len_slice_all(n, cap) == n

\* len(targets[:cap]): random.shuffle permutes the list and keeps its length
len_slice(n, cap) == IF n < cap THEN n ELSE cap

\* the words of intro_words that make a title an offer (scrapers.py:147-156)
offer_words ==
  <<<<"w","e">>,  \* we
    <<"p","r","o","f","e","s","s","i","o","n","a","l">>,  \* professional
    <<"t","o","p">>,  \* top
    <<"b","e","s","t">>,  \* best
    <<"a","f","f","o","r","d","a","b","l","e">>,  \* affordable
    <<"q","u","a","l","i","t","y">>,  \* quality
    <<"f","r","e","e">>,  \* free
    <<"l","i","c","e","n","s","e","d">>  \* licensed
  >>

\* the literals X of the regexes \bX\b of resident_pats in
\* CraigslistScraper.scrape (scrapers.py:161-169)
cl_resident_pats ==
  <<<<"i">>,  \* i
    <<"m","y">>,  \* my
    <<"m","e">>,  \* me
    <<"n","e","e","d">>,  \* need
    <<"h","e","l","p">>,  \* help
    <<"o","u","r"," ","y","a","r","d">>,  \* our yard
    <<"m","y"," ","h","o","u","s","e">>  \* my house
  >>

\* pro_flags of CraigslistScraper.scrape (scrapers.py:173-183)
cl_pro_flags ==
  <<<<"l","i","c","e","n","s","e","d">>,  \* licensed
    <<"i","n","s","u","r","e","d">>,  \* insured
    <<"f","r","e","e"," ","e","s","t","i","m","a","t","e">>,  \* free estimate
    <<"c","a","l","l"," ","u","s">>,  \* call us
    <<"v","i","s","i","t"," ","o","u","r">>,  \* visit our
    <<"w","e","b","s","i","t","e">>,  \* website
    <<"c","r","e","d","i","t"," ","c","a","r","d">>,  \* credit card
    <<"f","i","n","a","n","c","e">>,  \* finance
    <<"s","a","t","i","s","f","a","c","t","i","o","n"," ","g","u","a","r","a","n","t","e","e","d">>  \* satisfaction guaranteed
  >>

\* some word of words is one of the first two words of the title
in_intro_words(words, title) ==
    LET ws == split(lower(title))
        intro_words == SubSeq(ws, 1, min(2, Len(ws)))
    IN  \E j \in 1..Len(words) : \E m \in 1..Len(intro_words) : intro_words[m] = words[j]

\* the record CraigslistScraper.scrape appends for an item it keeps
cl_lead(link, title, text) ==
    [Source_URL |-> link,
     Job_Title  |-> title,
     Raw_Text   |-> <<"R","e","q","u","e","s","t",":"," ">> \o title
                    \o <<"."," ","C","o","n","t","e","x","t",":"," ">>
                    \o SubSeq(text, 1, min(200, Len(text)))]

\* the loop of CraigslistScraper.scrape over the items of one page, from the
\* item at index i on: st holds results and seen_links.  An item has the href
\* and the title of its title element, and the age in days of its
\* .result-date; the text of the item is its title.
RECURSIVE cl_items(_, _, _)
cl_items(items, i, st) ==
    IF i > Len(items) THEN st
    ELSE
      LET item == items[i]
          title == item.title
          href == item.href
          link == IF is_absolute(href) THEN href ELSE absolute(href)
          text == replace_newline(lower(title) \o lower(title))
          needs_help == in_intro_words(intro_help_words, title)
          is_offer == in_intro_words(offer_words, title)
          is_narrative == any_search(cl_resident_pats, text)
          is_pro == any_in(cl_pro_flags, text) \/ is_offer
          for_sale == str_in(<<"f","o","r"," ","s","a","l","e">>, text)
                      \/ str_in(<<"s","e","l","l","i","n","g">>, lower(title))
      IN  IF href = 0 \/ href \in st.seen_links THEN cl_items(items, i + 1, st)
          ELSE IF item.age > 30 THEN cl_items(items, i + 1, st)
          ELSE IF (is_narrative \/ needs_help) /\ ~ is_pro
          THEN cl_items(items, i + 1,
                        [results    |-> IF for_sale THEN st.results
                                        ELSE Append(st.results, cl_lead(link, title, text)),
                         seen_links |-> st.seen_links \cup {link}])
          ELSE cl_items(items, i + 1, st)

\* the titles of the postings on the result pages: a request and an offer
PostingTitles ==
  { <<"I"," ","n","e","e","d"," ","s","o","d">>,  \* I need sod
    <<"W","e"," ","s","o","d">>  \* We sod
  }

\* the items of the result pages: the posting 1 with either title, by its
\* relative href and by its absolute URL, the posting 2, which is older than
\* 30 days, and an item whose title element has no href
PostingItems ==
    { [href |-> h, title |-> t, age |-> 0] : h \in {0 - 1, 1}, t \in PostingTitles }
    \cup { [href |-> 2, title |-> t, age |-> 31] : t \in PostingTitles }
    \cup { [href |-> 0, title |-> t, age |-> 0] : t \in PostingTitles }

\* the result pages with at most n items
Pages(n) == UNION { [1..k -> PostingItems] : k \in 0..n }

\* scrape() and scrape_all() up to the page loop: the targets are enumerated,
\* shuffled and cut.  The lists of regions and of categories have MaxListLen
\* entries, the list of queries has any number of them up to MaxListLen, and
\* scrape_all has no extra base or MaxListLen of them
StartScan(who) ==
    /\ scan.who = "none"
    /\ \E regions, categories \in {MaxListLen}, queries \in 0..MaxListLen,
          extra_bases \in IF who = "craigslist" THEN {0} ELSE {0, MaxListLen} :
         scan' = [who        |-> who,
                  targets    |-> len_targets(who, regions, categories, queries, extra_bases),
                  visited    |-> 0,
                  items      |-> 0,
                  results    |-> <<>>,
                  seen_links |-> {}]
    /\ UNCHANGED <<store, raw_leads, screened_leads, new_leads, pc, clock, decisions, used,
                   fresh, last>>
    /\ UNCHANGED run_vars
    /\ UNCHANGED <<response, versions, gather>>

\* one iteration of the page loop: the page of the next target is fetched
\* (None when the fetch fails) and its items are gone through; in scrape_all,
\* whose results are all_leads and whose seen_links are seen_urls, the leads
\* parse_craigslist returns are taken unless their URL is in seen_urls
VisitPage ==
    /\ scan.who # "none"
    /\ scan.visited < len_slice(scan.targets, targets_cap(scan.who))
    /\ \E fetched \in BOOLEAN :
         \E page \in IF fetched THEN Pages(MaxItems - scan.items) ELSE { <<>> } :
           LET st == IF scan.who = "craigslist"
                     THEN cl_items(page, 1, [results |-> scan.results,
                                             seen_links |-> scan.seen_links])
                     ELSE LET items == [i \in 1..Len(page) |->
                                          [href |-> page[i].href, title |-> page[i].title,
                                           body |-> <<>>]]
                              all_leads == first_seen(scan.results,
                                               parse_craigslist(items,
                                                   [i \in 1..Len(page) |-> clock]))
                          IN  [results |-> all_leads, seen_links |-> { all_leads[k].Source_URL : k \in 1..Len(all_leads) }]
           IN  scan' = [scan EXCEPT !.visited = @ + 1,
                                    !.items = @ + Len(page),
                                    !.results = st.results,
                                    !.seen_links = st.seen_links]
    /\ UNCHANGED <<store, raw_leads, screened_leads, new_leads, pc, clock, decisions, used,
                   fresh, last>>
    /\ UNCHANGED run_vars
    /\ UNCHANGED <<response, versions, gather>>

\* the page loop is over: the scraper returns its results
EndScan ==
    /\ scan.who # "none"
    /\ scan.visited = len_slice(scan.targets, targets_cap(scan.who))
    /\ scan' = [who |-> "none", returned |-> scan.results]
    /\ UNCHANGED <<store, raw_leads, screened_leads, new_leads, pc, clock, decisions, used,
                   fresh, last>>
    /\ UNCHANGED run_vars
    /\ UNCHANGED <<response, versions, gather>>

NextScan ==
    \/ \E who \in {"craigslist", "github"} : StartScan(who)
    \/ VisitPage
    \/ EndScan

SpecScan == Init /\ [][NextScan]_vars

----------------------------------------------------------------------------
(* One run of LeadPipelineOrchestrator.run_full_pipeline on the asyncio event
   loop: discover_leads starts the scrape() coroutines of the four traditional
   scrapers with asyncio.gather; the single thread of the loop runs one
   coroutine at a time, from one await to the next.  A coroutine that awaits
   (asyncio.sleep, page.goto) is suspended and leaves the thread to the
   others; a coroutine that calls a function that sleeps or waits for the
   network without await keeps the thread until the call returns. *)

\* pages CraigslistScraper.scrape fetches in one run
MaxPages == 1
\* leads the connectors and the MCP discovery return in one run
MaxFound == 1
\* queries of GoogleSearchNavigator.scrape (scrapers.py:211-215)
google_queries == <<"reddit miami", "nextdoor broward", "reddit palm beach">>

\* the waits a scraper makes in one run: the pages of CraigslistScraper.scrape,
\* the one page of MiamiDadeScraper and of BrowardScraper, and the calls of
\* search() of GoogleSearchNavigator, one for each query
waits_of(name, pages) ==
    IF name = "craigslist" THEN pages
    ELSE IF name = "google" THEN Len(google_queries)
    ELSE 1

\* the task asyncio.gather has created for a coroutine and not started yet
scheduled(name, pages) == [pc |-> "scheduled", left |-> waits_of(name, pages)]

\* the task has returned a list or raised an exception
finished(task) == task.pc \in {"done", "failed"}

\* the task is suspended at an await, or inside a call that waits
waiting(task) == task.pc \in {"sleeping", "io", "blocked"}

\* the task has a step to take once the event loop gives it the thread
active(task) == task.pc \in {"scheduled", "sleeping", "io", "blocked"}

\* asyncio.gather that returns as soon as one task has finished
gather_done_first(tasks) == \E c \in DOMAIN tasks : finished(tasks[c])

\* await asyncio.gather(*traditional_tasks, return_exceptions=True) returns:
\* every task has returned or raised
gather_done(tasks) == \A c \in DOMAIN tasks : finished(tasks[c])

\* main runs run_full_pipeline, once in the life of the process:
\* discover_leads creates the tasks
StartRun ==
    /\ pc = "idle"
    /\ clock = 0
    /\ gather.phase # "gathering"
    /\ \E pages \in 1..MaxPages :
         gather' = [phase  |-> "gathering",
                    holder |-> 0,
                    tasks  |-> [c \in 1..Len(traditional_tasks) |->
                                  scheduled(traditional_tasks[c], pages)]]
    /\ pc' = "fetching"
    /\ clock' = clock + 1
    /\ entry' = "run_full_pipeline"
    /\ outcome' = "running"
    /\ raw_leads' = <<>>
    /\ screened_leads' = <<>>
    /\ log' = {}
    /\ summary' = no_summary
    /\ faults' = no_faults
    /\ last' = [op |-> "none"]
    /\ UNCHANGED <<store, new_leads, decisions, used, fresh, disk, file, procs>>
    /\ UNCHANGED <<response, versions, scan>>

\* the event loop gives the thread to the task c, which runs up to its next
\* wait or to its end.  A scraper of BaseScraper launches a browser for each
\* page (which may raise: the launch is outside the try of get_page_content),
\* awaits asyncio.sleep, then awaits the page, and returns after its last
\* page.  GoogleSearchNavigator.scrape has no await: it returns [] at once
\* when googlesearch is not installed, and otherwise stays in
\* list(search(q, num_results=3, sleep_interval=4)), query after query, with
\* the thread of the event loop
Resume(c) ==
    /\ pc = "fetching"
    /\ gather.phase = "gathering"
    /\ gather.holder \in {0, c}
    /\ active(gather.tasks[c])
    /\ LET task == gather.tasks[c]
           name == traditional_tasks[c]
           failures == Cardinality({ d \in DOMAIN gather.tasks :
                                       gather.tasks[d].pc \in {"failed", "hung"} })
       IN  \E next \in
               IF name = "google"
               THEN IF task.pc = "scheduled"
                    THEN { [pc |-> "done", left |-> 0], [pc |-> "blocked", left |-> task.left] }
                    ELSE IF task.left > 1
                    THEN { [pc |-> "blocked", left |-> task.left - 1] }
                    ELSE { [pc |-> "done", left |-> 0] }
               ELSE IF task.pc = "scheduled"
                    THEN { [pc |-> "sleeping", left |-> task.left] }
                         \cup (IF failures < MaxFailures
                               THEN { [pc |-> "failed", left |-> task.left] } ELSE {})
               ELSE IF task.pc = "sleeping"
                    THEN { [pc |-> "io", left |-> task.left] }
               ELSE IF task.left > 1
                    THEN { [pc |-> "sleeping", left |-> task.left - 1] }
                         \cup (IF failures < MaxFailures
                               THEN { [pc |-> "failed", left |-> task.left - 1] } ELSE {})
               ELSE { [pc |-> "done", left |-> 0] } :
             gather' = [gather EXCEPT !.tasks[c] = next,
                                      !.holder = IF next.pc = "blocked" THEN c ELSE 0]
    /\ UNCHANGED <<store, raw_leads, screened_leads, new_leads, pc, clock, decisions, used,
                   fresh, last>>
    /\ UNCHANGED run_vars
    /\ UNCHANGED <<response, versions, scan>>

\* what the task c awaits never completes: of the awaits of get_page_content
\* only page.goto has a timeout, and discover_leads sets none on the tasks
Hang(c) ==
    /\ pc = "fetching"
    /\ gather.phase = "gathering"
    /\ gather.holder = 0
    /\ gather.tasks[c].pc = "io"
    /\ Cardinality({ d \in DOMAIN gather.tasks :
                       gather.tasks[d].pc \in {"failed", "hung"} }) < MaxFailures
    /\ gather' = [gather EXCEPT !.tasks[c].pc = "hung"]
    /\ UNCHANGED <<store, raw_leads, screened_leads, new_leads, pc, clock, decisions, used,
                   fresh, last>>
    /\ UNCHANGED run_vars
    /\ UNCHANGED <<response, versions, scan>>

\* asyncio.gather returns the results of the tasks, the lists extend results
\* and the exceptions are logged; the MCP discovery then returns its leads or
\* raises, and discover_leads returns
GatherReturns ==
    /\ pc = "fetching"
    /\ gather.phase = "gathering"
    /\ gather_done(gather.tasks)
    /\ LET F == { c \in DOMAIN gather.tasks : gather.tasks[c].pc = "failed" }
       IN  \E us \in url_seqs(MaxFound - used, fresh) :
             \E ts \in [1..Len(us) -> RunTexts],
                owner \in { o \in [1..Len(us) -> (1..Len(traditional_tasks)) \ F] :
                              \A i, j \in 1..Len(us) : i < j => o[i] <= o[j] },
                mcp_ok \in IF Cardinality(F) < MaxFailures THEN BOOLEAN ELSE {TRUE} :
               \E posts \in IF mcp_ok
                            THEN { ps \in reddit_posts(known_after(fresh, us)) :
                                     Len(us) + Len(ps) <= MaxFound - used }
                            ELSE { <<>> } :
                 LET leads == [i \in 1..Len(us) |->
                                 [Source_URL |-> us[i], Job_Title |-> <<>>,
                                  Raw_Text |-> ts[i]]]
                     traditional_results ==
                         [c \in 1..Len(traditional_tasks) |->
                            [ok |-> c \notin F, leads |-> leads_only(owned(leads, owner, c))]]
                     mcp_result == [ok |-> mcp_ok, leads |-> run_discovery(posts)]
                     links == SelectSeq([i \in 1..Len(posts) |-> posts[i].link],
                                        LAMBDA l : l # 0)
                 IN  /\ raw_leads' = discover_leads(traditional_results, TRUE, mcp_result)
                     /\ log' = discover_leads_warnings(traditional_results, TRUE, mcp_result)
                     /\ faults' = [no_faults EXCEPT
                                     !.connector = Cardinality(F) + (IF mcp_ok THEN 0 ELSE 1)]
                     /\ used' = used + Len(us) + Len(posts)
                     /\ fresh' = known_after(known_after(fresh, us), links)
    /\ gather' = [gather EXCEPT !.phase = "returned"]
    /\ pc' = "classifying"
    /\ UNCHANGED <<store, screened_leads, new_leads, clock, decisions, last, disk, file,
                   entry, outcome, summary, procs>>
    /\ UNCHANGED <<response, versions, scan>>

\* screened_leads = self.screener.screen(raw_leads)
Classify ==
    /\ pc = "classifying"
    /\ \E ticks \in [1..(Len(raw_leads) - 1) -> 0..1] :
         screened_leads' = screen(raw_leads, stamps_from(clock, ticks))
    /\ pc' = "merging"
    /\ UNCHANGED <<store, raw_leads, new_leads, clock, decisions, used, fresh, last>>
    /\ UNCHANGED run_vars
    /\ UNCHANGED ext_vars

\* output = self.formatter.format_output(screened_leads), which returns None
\* for an empty batch, writes the store, or raises when the store cannot be
\* opened for writing; run_full_pipeline then returns its summary
Merge ==
    /\ pc = "merging"
    /\ LET path == store_path(entry)
           existing_leads == format_output_existing(file[path], content_of(path))
       IN  \/ /\ ~ format_output_writes(screened_leads)
              /\ summary' = summary_of(raw_leads, screened_leads, <<>>, clock)
              /\ outcome' = "returned"
              /\ UNCHANGED <<store, disk, file, log, faults, last>>
           \/ /\ format_output_writes(screened_leads)
              /\ WriteStore(path, format_output_final_list(screened_leads, existing_leads))
              /\ log' = log \cup load_warnings(path)
              /\ last' = [op |-> "format_output", path |-> path, status |-> file[path],
                          existing |-> existing_leads, batch |-> screened_leads,
                          raw |-> raw_leads]
              /\ summary' = summary_of(raw_leads, screened_leads,
                                       <<"csv_path", "json_path">>, clock)
              /\ outcome' = "returned"
              /\ UNCHANGED faults
           \/ /\ format_output_writes(screened_leads)
              /\ outcome' = "raised"
              /\ faults' = [faults EXCEPT !.write = @ + 1]
              /\ UNCHANGED <<store, disk, file, log, last, summary>>
    /\ pc' = "idle"
    /\ UNCHANGED <<raw_leads, screened_leads, new_leads, clock, decisions, used, fresh,
                   entry, procs>>
    /\ UNCHANGED ext_vars

\* the steps of a run that go on without any event from outside
Progress ==
    \/ \E c \in 1..Len(traditional_tasks) : Resume(c)
    \/ GatherReturns
    \/ Classify
    \/ Merge

NextGather ==
    \/ StartRun
    \/ \E c \in 1..Len(traditional_tasks) : Resume(c)
    \/ \E c \in 1..Len(traditional_tasks) : Hang(c)
    \/ GatherReturns
    \/ Classify
    \/ Merge

SpecGather == Init /\ [][NextGather]_vars

\* the runs in which the event loop keeps running the tasks that have a step
\* to take, and the run goes on whenever it can
SpecGatherFair == SpecGather /\ WF_vars(Progress)


----------------------------------------------------------------------------
(* Properties of the screener *)

\* the lead is in the batch screen returned
in_batch(lead, batch) ==
    \E k \in 1..Len(batch) :
        /\ batch[k].Source_URL = lead.Source_URL
        /\ batch[k].Job_Title = lead.Job_Title
        /\ batch[k].Raw_Text = lead.Raw_Text

\* the text contains a phrase of the professional-indicator list or of the
\* sales/spam list
has_veto_phrase(text) ==
    \/ \E j \in 1..Len(pro_bad_words) : str_in(pro_bad_words[j], text)
    \/ \E j \in 1..Len(sales_flags) : str_in(sales_flags[j], text)

\* the five scoring categories
has_first_person(text) == \E j \in 1..Len(personal_pats) : re_search_word(personal_pats[j], text)
has_help_seeking(text) == \E j \in 1..Len(help_pats) : re_search_word(help_pats[j], text)
has_project_keyword(text) == \E j \in 1..Len(project_keywords) : str_in(project_keywords[j], text)
has_local_area(text) == \E j \in 1..Len(target_cities) : str_in(target_cities[j], text)
has_interrogative(text) == \E j \in 1..Len(question_pats) : str_in(question_pats[j], text)

\* the weights of the five categories, in the order above
Weights == <<25, 15, 10, 5, 5>>

RECURSIVE sum_over(_, _)
sum_over(f, S) ==
    IF S = {} THEN 0
    ELSE LET x == CHOOSE x \in S : TRUE IN f[x] + sum_over(f, S \ {x})

\* the sums of the subsets of the weights
SubsetSums == { sum_over(Weights, S) : S \in SUBSET (1..5) }

\* the categories of which at least one pattern matches the text
matched_categories(text) ==
    { c \in 1..5 :
        \/ c = 1 /\ has_first_person(text)
        \/ c = 2 /\ has_help_seeking(text)
        \/ c = 3 /\ has_project_keyword(text)
        \/ c = 4 /\ has_local_area(text)
        \/ c = 5 /\ has_interrogative(text) }

\* C1: a candidate whose lower-cased title and text contain a phrase of the
\* professional-indicator list or of the sales/spam list is absent from the
\* batch screen returns, whatever positive signals it carries.
C1_VetoRejects ==
    pc = "screened" =>
        \A i \in 1..Len(raw_leads) :
            has_veto_phrase(combined_text(raw_leads[i]))
                => ~ in_batch(raw_leads[i], screened_leads)

\* a vetoed candidate with every positive signal needed to pass was screened
C1_Witness ==
    /\ pc = "screened"
    /\ \E i \in 1..Len(raw_leads) :
         /\ has_veto_phrase(combined_text(raw_leads[i]))
         /\ has_first_person(combined_text(raw_leads[i]))
         /\ ~ in_batch(raw_leads[i], screened_leads)

\* C2: a candidate with no veto phrase is accepted if and only if its intent
\* score is at least 25 (20 is rejected, 25 is accepted), and an accepted lead
\* carries its score and a screening stamp.
C2_ThresholdDecision ==
    pc = "screened" =>
        \A i \in 1..Len(raw_leads) :
            LET text == combined_text(raw_leads[i])
                score == sum_over(Weights, matched_categories(text))
            IN  ~ has_veto_phrase(text) =>
                  /\ in_batch(raw_leads[i], screened_leads) <=> score >= 25
                  /\ \A k \in 1..Len(screened_leads) :
                       screened_leads[k].Source_URL = raw_leads[i].Source_URL =>
                         /\ screened_leads[k].Score = score
                         /\ screened_leads[k].Screened_At \in 1..clock

\* a candidate scoring exactly 20 was rejected and one scoring exactly 25 was
\* accepted, in the same batch
C2_Witness ==
    /\ pc = "screened"
    /\ \E i, j \in 1..Len(raw_leads) :
         /\ ~ has_veto_phrase(combined_text(raw_leads[i]))
         /\ ~ has_veto_phrase(combined_text(raw_leads[j]))
         /\ sum_over(Weights, matched_categories(combined_text(raw_leads[i]))) = 20
         /\ sum_over(Weights, matched_categories(combined_text(raw_leads[j]))) = 25
         /\ ~ in_batch(raw_leads[i], screened_leads)
         /\ in_batch(raw_leads[j], screened_leads)

\* C3: the intent score is the sum of the weights of the categories that have
\* at least one matching pattern, each category counted once; it is a subset
\* sum of {25, 15, 10, 5, 5} and lies in 0..60.
C3_ScoreIsCategorySum ==
    /\ \A i \in 1..Len(raw_leads) :
         LET text == combined_text(raw_leads[i])
             score == _calculate_intent_score(text)
         IN  /\ score = sum_over(Weights, matched_categories(text))
             /\ score \in SubsetSums
             /\ score \in 0..60
    /\ \A k \in 1..Len(screened_leads) :
         /\ screened_leads[k].Score =
              sum_over(Weights, matched_categories(combined_text(screened_leads[k])))
         /\ screened_leads[k].Score \in SubsetSums

\* a text matched by two patterns of the first-person category was scored
C3_Witness ==
    /\ pc = "screened"
    /\ \E k \in 1..Len(screened_leads) :
         LET text == combined_text(screened_leads[k])
         IN  /\ Cardinality({ j \in 1..Len(personal_pats) :
                                 re_search_word(personal_pats[j], text) }) >= 2
             /\ has_help_seeking(text)
             /\ screened_leads[k].Score = 40

\* C4: a candidate with first-person language, a help-seeking phrase and a
\* project keyword and no veto phrase is accepted with a score of at least 50.
C4_StrongIntentAccepted ==
    pc = "screened" =>
        \A i \in 1..Len(raw_leads) :
            LET text == combined_text(raw_leads[i])
            IN  ( /\ has_first_person(text)
                  /\ has_help_seeking(text)
                  /\ has_project_keyword(text)
                  /\ ~ has_veto_phrase(text) )
                => \E k \in 1..Len(screened_leads) :
                     /\ screened_leads[k].Source_URL = raw_leads[i].Source_URL
                     /\ screened_leads[k].Raw_Text = raw_leads[i].Raw_Text
                     /\ screened_leads[k].Score >= 50

\* a candidate with the three signals and no veto phrase was screened
C4_Witness ==
    /\ pc = "screened"
    /\ \E i \in 1..Len(raw_leads) :
         LET text == combined_text(raw_leads[i])
         IN  /\ has_first_person(text)
             /\ has_help_seeking(text)
             /\ has_project_keyword(text)
             /\ ~ has_veto_phrase(text)
             /\ in_batch(raw_leads[i], screened_leads)

\* C5: two candidates with equal title and text get the same decision and the
\* same score, whatever their position in the batch, the candidates screened
\* before them and the run they are screened in.
C5_Deterministic ==
    \A d1, d2 \in decisions :
        (d1.Job_Title = d2.Job_Title /\ d1.Raw_Text = d2.Raw_Text)
            => (d1.accepted = d2.accepted /\ d1.Score = d2.Score)

\* the same accepted title and text was screened twice, in two runs or at two
\* positions of a batch
C5_Witness ==
    \E d1, d2 \in decisions :
        /\ d1.Job_Title = d2.Job_Title
        /\ d1.Raw_Text = d2.Raw_Text
        /\ d1.run # d2.run \/ d1.pos # d2.pos
        /\ d1.accepted


----------------------------------------------------------------------------
(* Properties of the merge *)

\* the Source_URLs of the leads of a sequence
urls_of(leads) == { leads[k].Source_URL : k \in 1..Len(leads) }

\* the leads of a sequence, as a set
leads_of(leads) == { leads[k] : k \in 1..Len(leads) }

\* a merge has just written the store
merged == last.op # "none"

\* C6: after a merge, for every Source_URL present both in the store as it
\* was and in the new batch, the record kept in the store is the one of the
\* new batch.
C6_LastWriteWins ==
    merged =>
        \A k \in 1..Len(store) :
            store[k].Source_URL \in urls_of(last.existing) \cap urls_of(last.batch)
                => store[k] \in leads_of(last.batch)

\* C7: after a merge, of two leads of the store as it was and of the new batch
\* that share a Source_URL and differ in Screened_At, the store does not
\* retain the one with the earlier Screened_At.
C7_RecencyRule ==
    merged =>
        \A a, b \in leads_of(last.existing) \cup leads_of(last.batch) :
            (a.Source_URL = b.Source_URL /\ a.Screened_At < b.Screened_At)
                => a \notin leads_of(store)

\* C8: the persisted store never contains two records with the same
\* Source_URL.
C8_UniqueURLs ==
    \A i, j \in 1..Len(store) :
        i # j => store[i].Source_URL # store[j].Source_URL

\* a merge of a batch that shares a URL with the store it is merged into, and
\* the store holds several leads
C8_Witness ==
    /\ merged
    /\ urls_of(last.existing) \cap urls_of(last.batch) # {}
    /\ Len(last.batch) = 2
    /\ Len(store) >= 2

\* C9: after a merge the store holds at most Capacity leads; when the merged
\* set of URLs exceeds the capacity it holds exactly Capacity leads and no
\* discarded lead is newer than a lead that is kept.
C9_Capacity ==
    merged =>
        /\ Len(store) <= Capacity
        /\ Cardinality(urls_of(last.existing) \cup urls_of(last.batch)) > Capacity
             => /\ Len(store) = Capacity
                /\ \A a \in leads_of(last.existing) \cup leads_of(last.batch) :
                     a.Source_URL \notin urls_of(store)
                       => \A k \in 1..Len(store) : store[k].Screened_At >= a.Screened_At

\* C10: the persisted sequence of leads is sorted by Screened_At descending,
\* and leads with equal Screened_At by Score descending.
C10_Ordering ==
    \A i, j \in 1..Len(store) :
        i < j =>
            \/ store[i].Screened_At > store[j].Screened_At
            \/ /\ store[i].Screened_At = store[j].Screened_At
               /\ store[i].Score >= store[j].Score

\* C11: merging the batch of the last merge a second time, into the store the
\* first merge has written, leaves the store as it is: same records, same
\* order, same size, for format_output and for update_leads_json.
C11_MergeIdempotent ==
    /\ last.op = "format_output" => format_output(last.batch, store) = store
    /\ last.op = "update_leads_json" => update_leads_json(last.batch, store) = store

\* a merge of update_leads_json in which the truncation to the capacity applies
C11_Witness ==
    /\ last.op = "update_leads_json"
    /\ Cardinality(urls_of(last.existing) \cup urls_of(last.batch)) > Capacity
    /\ Len(store) = Capacity

\* C19: whichever writers have run, every lead of the persisted store has a
\* Score of at least 25, the acceptance threshold.
C19_StoreScoreAtLeast25 ==
    \A k \in 1..Len(store) : store[k].Score >= 25

\* the candidates of a sequence have pairwise distinct, non-empty Source_URLs
distinct_urls(leads) ==
    /\ \A i \in 1..Len(leads) : leads[i].Source_URL # 0
    /\ \A i, j \in 1..Len(leads) : i # j => leads[i].Source_URL # leads[j].Source_URL

\* the candidate has no veto phrase and an intent score of at least 25
acceptable(lead) ==
    /\ ~ has_veto_phrase(combined_text(lead))
    /\ sum_over(Weights, matched_categories(combined_text(lead))) >= 25

\* C20: when candidates with pairwise distinct, non-empty Source_URLs, fewer
\* than the capacity, are screened and the accepted batch is merged by
\* format_output into an empty store, the store holds exactly the candidates
\* that have no veto phrase and score at least 25.
C20_EndToEnd ==
    ( /\ last.op = "format_output"
      /\ Len(last.existing) = 0
      /\ distinct_urls(last.raw)
      /\ Len(last.raw) < Capacity )
    => /\ Len(store) = Cardinality({ i \in 1..Len(last.raw) : acceptable(last.raw[i]) })
       /\ \A i \in 1..Len(last.raw) :
             acceptable(last.raw[i]) <=> in_batch(last.raw[i], store)

\* C23: after a merge, a Source_URL of the store as it was is missing from the
\* store only when the merge is the one of update_leads_json, the merged set
\* of URLs exceeds the capacity, and no lead that is kept was screened before
\* the missing one; format_output, _final_scrub included, removes no persisted
\* lead.
C23_OnlyEviction ==
    merged =>
        \A a \in leads_of(last.existing) :
            a.Source_URL \notin urls_of(store)
              => /\ last.op = "update_leads_json"
                 /\ Cardinality(urls_of(last.existing) \cup urls_of(last.batch)) > Capacity
                 /\ \A k \in 1..Len(store) : store[k].Screened_At >= a.Screened_At

\* a merge that evicts one persisted lead and keeps another
C23_Witness ==
    /\ merged
    /\ \E a, b \in leads_of(last.existing) :
         /\ a.Source_URL \notin urls_of(store)
         /\ b.Source_URL \in urls_of(store)

\* the orders in which n candidates can reach the aggregate list
orders(n) ==
    { p \in [1..n -> 1..n] : \A i, j \in 1..n : i # j => p[i] # p[j] }

\* the candidates in the order p
permuted(leads, p) == [i \in 1..Len(leads) |-> leads[p[i]]]

\* the values the clock can return to screen in a run over n candidates
StampSeqs(n) ==
    IF n = 0 THEN { <<>> }
    ELSE { stamps_from(clock, ticks) : ticks \in [1..(n - 1) -> 0..1] }

\* the store format_output writes when the candidates are screened in the
\* order p with the clock readings stamps
store_after(raw, p, stamps, existing) ==
    format_output(screen(permuted(raw, p), stamps), existing)

\* a lead without the time of its screening
core(lead) ==
    [Source_URL |-> lead.Source_URL, Job_Title |-> lead.Job_Title,
     Raw_Text |-> lead.Raw_Text, Score |-> lead.Score]

\* the leads of a sequence without their times, as a set
cores_of(leads) == { core(leads[k]) : k \in 1..Len(leads) }

\* C26 as stated: for the candidates and the store of the last run, the store
\* written is the same sequence of leads in whatever order the candidates are
\* screened, as long as no two candidates share a Source_URL.
C26_SameStore ==
    (last.op = "format_output" /\ distinct_urls(last.raw)) =>
        \A p \in orders(Len(last.raw)), stamps \in StampSeqs(Len(last.raw)) :
            store_after(last.raw, p, stamps, last.existing)
              = format_output(screen(last.raw, stamps), last.existing)

\* C26, amended: in whatever order the candidates of the last run are
\* screened, the store written holds the same Source_URLs and the same number
\* of leads, and when no two candidates share a Source_URL the same leads up
\* to Screened_At; the order of the leads in the store is not part of it.
C26_SameLeads ==
    last.op = "format_output" =>
        \A p \in orders(Len(last.raw)), stamps \in StampSeqs(Len(last.raw)) :
            LET a == store_after(last.raw, p, stamps, last.existing)
                b == format_output(screen(last.raw, stamps), last.existing)
            IN  /\ urls_of(a) = urls_of(b)
                /\ Len(a) = Len(b)
                /\ distinct_urls(last.raw) => cores_of(a) = cores_of(b)

\* a run that has merged two accepted candidates of distinct URLs and equal
\* Score into a store that held a lead
C26_Witness ==
    /\ last.op = "format_output"
    /\ distinct_urls(last.raw)
    /\ Len(last.existing) > 0
    /\ \E i, j \in 1..Len(last.batch) :
         /\ last.batch[i].Source_URL # last.batch[j].Source_URL
         /\ last.batch[i].Score = last.batch[j].Score
         /\ {last.batch[i].Source_URL, last.batch[j].Source_URL} \subseteq urls_of(store)
----------------------------------------------------------------------------
(* Properties of the runs of the entry points *)

\* the run of an entry point is over and has not been cleared yet
ended == pc = "ended"

\* C12: when the process has died in the persist step of format_output or
\* update_leads_json, the store file it was writing holds either exactly what
\* it held before the write or the complete new content, never a truncated
\* or corrupt one.
C12_AtomicPersist ==
    outcome = "crashed" =>
        \/ /\ file[last.path] = last.before.status
           /\ content_of(last.path) = last.before.leads
        \/ /\ file[last.path] = "valid"
           /\ content_of(last.path) = last.after

\* C13: a merge whose load finds no store file, or a store file that is not a
\* JSON text, completes with the existing set taken as empty: the Source_URL
\* of every lead of the batch is in the store it writes, and when the file was
\* there and malformed the run has logged that the existing leads could not
\* be loaded.
C13_CorruptReadLogged ==
    ( /\ ended
      /\ last.op \in {"format_output", "update_leads_json"}
      /\ last.status # "valid" )
    => /\ outcome = "returned"
       /\ urls_of(last.batch) \subseteq urls_of(content_of(last.path))
       /\ last.status \in {"empty", "partial"}
            => "Could not load existing leads" \in log

\* C14: the run of an entry point reports an error to its caller exactly when
\* a write of the store has failed in it: a write failure never ends in a
\* normal return, and nothing else (a connector that fails, the screening)
\* makes the run raise.
C14_WriteFailureFatal ==
    (ended /\ outcome \in {"returned", "raised"})
    => (outcome = "raised" <=> faults.write > 0)

\* the run has found no candidate, or has accepted no lead
zero_run ==
    /\ entry # "none"
    /\ \/ pc = "discovered" /\ Len(raw_leads) = 0
       \/ pc = "screened" /\ Len(screened_leads) = 0
       \/ pc = "scraped" /\ Len(new_leads) = 0

\* C15: every step of a run that has found no candidate or accepted no lead
\* leaves every store file as it is (content, order and existence) and does
\* not raise, in each of the four entry points.
C15_ZeroRunLeavesStore ==
    [][zero_run => /\ store' = store
                   /\ disk' = disk
                   /\ file' = file
                   /\ outcome' \in {"running", "returned"}]_vars

\* run_full_pipeline has returned from a run that found candidates and
\* accepted none of them, with leads of an earlier run in its store
C15_Witness ==
    /\ ended
    /\ entry = "run_full_pipeline"
    /\ outcome = "returned"
    /\ Len(raw_leads) > 0
    /\ Len(screened_leads) = 0
    /\ Len(disk["workspace"]) > 0

\* the connectors of run_full_pipeline: the traditional scrapers and the MCP
\* discovery
NumConnectors == Len(traditional_tasks) + 1

\* C16: when exactly one connector of discover_leads has failed in a run of
\* run_full_pipeline and no write has failed, the run returns a summary that
\* reports NumConnectors - 1 successful connectors, and a non-empty accepted
\* batch when a lead was accepted.
C16_FaultIsolation ==
    ( /\ ended
      /\ entry = "run_full_pipeline"
      /\ faults.connector = 1
      /\ faults.write = 0
      /\ outcome # "crashed" )
    => /\ outcome = "returned"
       /\ "successful_connectors" \in DOMAIN summary
       /\ summary.successful_connectors = NumConnectors - 1
       /\ Len(screened_leads) > 0 => summary.verified_leads > 0

\* C18: screen accepts no record with an empty Source_URL, and no store holds
\* a lead with an empty Source_URL.
C18_NoEmptyURL ==
    /\ \A k \in 1..Len(screened_leads) : screened_leads[k].Source_URL # 0
    /\ \A p \in Paths :
         \A k \in 1..Len(content_of(p)) : content_of(p)[k].Source_URL # 0

\* C28: when format_output has raised after it has opened the store file, the
\* store file holds exactly what it held before the call.
C28_UnchangedOnError ==
    last.op = "format_output raised" =>
        /\ file[last.path] = last.before.status
        /\ content_of(last.path) = last.before.leads

\* C17: at most one run of the dashboard is between the load of the store and
\* its write at any time, and once every run is over the Source_URL of every
\* lead a run has merged is in the store: no write has lost the leads of
\* another run.
C17_SingleWriter ==
    /\ Cardinality({ p \in 1..MaxPosts : procs[p].pc \in {"loaded", "writing"} }) <= 1
    /\ (\A p \in 1..MaxPosts : procs[p].pc = "done")
         => \A p \in 1..MaxPosts :
               urls_of(procs[p].screened_leads) \subseteq urls_of(disk["workspace"])

\* C29: GET /api/leads never answers with an error, and the list it returns
\* is a complete content of the store: the one before a merge or the one
\* after it.
C29_ReadsCompleteStore ==
    /\ response.code # 500
    /\ response.code = 200 => response.data \in versions

----------------------------------------------------------------------------
(* Properties of the page loops *)

\* C22: a scrape visits at most 15 targets in CraigslistScraper.scrape and at
\* most 18 in scrape_all, however many targets it has enumerated.
C22_TargetsCapped ==
    /\ scan.who = "craigslist" => scan.visited <= 15
    /\ scan.who = "github" => scan.visited <= 18

\* each scraper has visited its last target with more targets enumerated than
\* it may visit
C22_Witness ==
    /\ scan.who # "none"
    /\ scan.targets > scan.visited
    /\ scan.visited = targets_cap(scan.who)

\* C27: the results of CraigslistScraper.scrape never hold two records with
\* the same Source_URL.
C27_NoDuplicateURL ==
    scan.who = "craigslist" =>
        \A i, j \in 1..Len(scan.results) :
            i # j => scan.results[i].Source_URL # scan.results[j].Source_URL

----------------------------------------------------------------------------
(* Properties of the run on the event loop *)

\* the phase of the run: Idle, Fetching while discover_leads runs,
\* Classifying while screen runs, Merged from the call of format_output on
phase_of(p) ==
    IF p = "idle" THEN "Idle"
    ELSE IF p = "fetching" THEN "Fetching"
    ELSE IF p = "classifying" THEN "Classifying"
    ELSE "Merged"

\* C21: a run changes phase only from Idle to Fetching, from Fetching to
\* Classifying, from Classifying to Merged and from Merged to Idle; while it
\* classifies or merges every connector task has returned or failed; the
\* accepted batch changes only in the step that ends Classifying, and a store
\* file is written only in the step that ends Merged.
C21_PhaseOrder ==
    [][ /\ pc' # pc =>
             <<phase_of(pc), phase_of(pc')>> \in
                 { <<"Idle", "Fetching">>, <<"Fetching", "Classifying">>,
                   <<"Classifying", "Merged">>, <<"Merged", "Idle">> }
        /\ pc' \in {"classifying", "merging"} =>
             \A c \in DOMAIN gather'.tasks : finished(gather'.tasks[c])
        /\ (screened_leads' # screened_leads /\ pc # "idle") => pc = "classifying"
        /\ (store' # store \/ disk' # disk \/ file' # file) => pc = "merging" ]_vars

\* a run has classified and merged a batch after one of its connectors failed
C21_Witness ==
    /\ pc = "idle"
    /\ outcome = "returned"
    /\ last.op = "format_output"
    /\ faults.connector > 0
    /\ \E c \in DOMAIN gather.tasks : gather.tasks[c].pc = "failed"

\* C24: while a connector task is in a wait, every other task that has a step
\* to take can take it.
C24_WaitsDoNotBlock ==
    gather.phase = "gathering" =>
        \A c, d \in DOMAIN gather.tasks :
            (c # d /\ waiting(gather.tasks[c]) /\ active(gather.tasks[d]))
                => ENABLED Resume(d)

\* C25: a run that is in Fetching eventually leaves it.
C25_LeavesFetching == (pc = "fetching") ~> (pc # "fetching")

\* the Craigslist item with the title and the text of a candidate
item_of(lead) == [href |-> lead.Source_URL, title |-> lead.Job_Title, body |-> lead.Raw_Text]

\* C30: on every candidate, score_lead returns the score of
\* _calculate_intent_score, and parse_craigslist accepts the item with its
\* title and text exactly when screen accepts the candidate.
C30_ClassifiersAgree ==
    \A i \in 1..Len(raw_leads) :
        LET lead == raw_leads[i]
        IN  /\ score_lead(item_text(item_of(lead)))
                 = _calculate_intent_score(combined_text(lead))
            /\ Len(parse_craigslist(<<item_of(lead)>>, <<clock>>)) = 1
                 <=> Len(screen(<<lead>>, <<clock>>)) = 1

====
